---------------------------- MODULE Spec2Model ----------------------------
(***************************************************************************)
(* Model of the Telegram webhook handlers of fluke/chammakbot:             *)
(*   src/handler.py  (AWS Lambda style handler  quote(event, context))     *)
(*   src/main.py     (Flask route  bot())                                  *)
(*   src/main2.py    (Flask route  bot())                                  *)
(* Python strings are modelled as sequences of one-character strings, so   *)
(* that  startswith , string concatenation and  str()  are computed the    *)
(* way the interpreter computes them.  Bytes that are not ASCII (the       *)
(* UTF-8 encoded emoji of main.py) are the elements "xF0", "x9F", ...      *)
(***************************************************************************)
EXTENDS Integers, Sequences, FiniteSets, TLC

(* ------------------------------ bounds -------------------------------- *)

\* Number of webhook invocations a process receives in one behaviour.
MaxInv == 1

\* Number of invocations in flight at once in the concurrent specification.
MaxConcurrent == 2

\* Largest catalog length for which the index expression is evaluated.
MaxCatalogLen == 16
\* The longest 'include:' list of an arg group.
MaxIncludes == 2
\* The largest replica count given on the command line, and the longest
\* list of autoscalers of a zone.
MaxReplicas == 2
MaxAutoscalers == 2
\* The largest timeout WaitForOperation is given.
MaxTimeout == 4

(* ------------------------- program constants -------------------------- *)

\* The three copies of the handler.
Variants == {"handler", "main", "main2"}

\* The command prefix tested by  startswith  in every variant.
QuotePrefix == <<"/", "q", "u", "o", "t", "e">>

\* src/handler.py:34
chammakisms_handler ==
    << <<"L", "o", "v", "e", "l", "y", " ", "d", "i", "n", "n", "e", "r", " ", "w", "i", "t", "h", " ", "s", "p", "e", "c", "i", "a", "l">>,
       <<"Y", "o", "u", " ", "w", "a", "n", "n", "a", " ", "c", "o", "m", "e", " ", "s", "e", "e", " ", "m", "y", " ", "c", "o", "f", "f", "e", "e", " ", "m", "a", "c", "h", "i", "n", "e", "?">>,
       <<"I", "'", "m", " ", "s", "o", " ", "i", "m", "p", "o", "r", "t", "a", "n", "t", " ", "t", "h", "a", "t", " ", "p", "e", "o", "p", "l", "e", " ", "w", "a", "n", "t", " ", "m", "e", " ", "k", "i", "l", "l", "e", "d", ".", ".", " ", "y", "o", "!">>,
       <<"H", "i", ".", " ", "I", "'", "m", " ", "r", "o", "l", "l", " ", "n", "u", "m", "b", "e", "r", " ", "2", ".">>,
       <<"Y", "o", "u", " ", "a", "r", "e", " ", "t", "o", "o", " ", "c", "o", "o", "l", " ", "f", "o", "r", " ", "m", "e", " ", "K", "h", "u", "s", "h", "b", "o", "o", " ", "S", "h", "a", "r", "m", "a", "!", "!", " ", "Y", "o", "u", " ", "a", "r", "e", " ", "t", "o", "o", " ", "a", "w", "e", "s", "o", "m", "e", " ", "f", "o", "r", " ", "m", "e", "!", " ", ":", "'", "(">>,
       <<"L", "e", "t", " ", "m", "e", " ", "b", "e", " ", "y", "o", "u", "r", " ", "C", "h", "a", "m", "m", "a", "k", " ", "C", "h", "a", "l", "l", "o">>,
       <<"A", " ", "c", "o", "f", "f", "e", "e", " ", "m", "a", "c", "h", "i", "n", "e", " ", "i", "s", " ", "a", " ", "g", "o", "o", "d", " ", "i", "n", "v", "e", "s", "t", "m", "e", "n", "t">>,
       <<"T", "h", "e", " ", "c", "l", "o", "u", "d", " ", "b", "r", "o">>,
       <<"I", " ", "d", "o", "n", "'", "t", " ", "g", "o", " ", "t", "o", " ", "s", "h", "a", "d", "y", " ", "p", "l", "a", "c", "e", "s">>,
       <<"I", " ", "c", "a", "n", "'", "t", " ", "s", "l", "e", "e", "p", " ", "w", "i", "t", "h", "o", "u", "t", " ", "t", "h", "e", " ", "A", "C">>,
       <<"I", " ", "w", "i", "s", "h", " ", "M", "a", "l", "l", "i", "k", "a", " ", "w", "o", "u", "l", "d", " ", "l", "i", "k", "e", " ", "m", "e", ".">>,
       <<"*", "s", "n", "a", "k", "e", "s", " ", "h", "a", "n", "d", " ", "i", "n", " ", "b", "e", "t", "w", "e", "e", "n", " ", "y", "o", "u", " ", "a", "n", "d", " ", "a", " ", "g", "i", "r", "l", "*">>,
       <<"I", " ", "h", "a", "v", "e", " ", "a", " ", "p", "a", "t", "e", "n", "t", " ", "i", "n", " ", "t", "h", "e", " ", "U", "S", ".">>,
       <<"I", "t", "'", "s", " ", "a", "l", "l", " ", "d", "y", "n", "a", "m", "i", "c", " ", "b", "r", "o">> >>

\* src/main.py:46.  The two entries ending in an emoji are .encode('utf-8')
\* byte strings (Python 2 str): wrench = xF0 x9F x94 xA7, wine = xF0 x9F x8D xB7.
chammakisms_main ==
    << <<"I", "s", " ", "t", "h", "i", "s", " ", "a", " ", "w", "r", "e", "n", "c", "h", " ", "o", "r", " ", "a", " ", "s", "p", "a", "n", "n", "e", "r", " ", "xF0", "x9F", "x94", "xA7">>,
       <<"H", "o", "w", " ", "d", "a", "r", "e", " ", "a", "r", "e", " ", "y", "o", "u", ".">>,
       <<"I", "'", "m", " ", "s", "i", "t", "t", "i", "n", "g", " ", "l", "i", "k", "e", " ", "a", "n", " ", "a", "w", "k", "w", "a", "r", "d", " ", "i", "n", "t", "e", "r", "n">>,
       <<"H", "e", "y", " ", "S", "a", "n", "d", "e", "s", "h", " ", "I", "s", " ", "K", "a", "r", "t", "i", "k", " ", "t", "h", "e", "r", "e">>,
       <<"I", "'", "m", " ", "g", "e", "t", "t", "i", "n", "g", " ", "s", "t", "r", "e", "s", "s", " ", "r", "a", "s", "h", "e", "s", " ", "b", "e", "c", "a", "u", "s", "e", " ", "o", "f", " ", "t", "h", "i", "s", " ", "s", "h", "i", "t", " ", "h", "o", "l", "e">>,
       <<"Y", "o", "u", " ", "s", "h", "o", "u", "l", "d", " ", "g", "e", "t", " ", "h", "e", "r", " ", "t", "o", " ", "t", "a", "l", "k", " ", "t", "o", " ", "p", "r", "a", "j", "w", "a", "l", " ", "a", "b", "o", "u", "t", " ", "c", "l", "o", "n", "e", "s", " ", "a", "n", "d", " ", "c", "h", "e", "c", "k", " ", "i", "f", " ", "s", "h", "e", " ", "g", "o", "e", "s", " ", "m", "a", "d", " ", "o", "r", " ", "n", "o", "t">>,
       <<"W", "e", "l", "c", "o", "m", "e", " ", "t", "o", " ", "m", "o", "n", "o", "g", "a", "m", "y">>,
       <<"Y", "o", "u", " ", "k", "n", "o", "w", " ", "I", " ", "h", "a", "d", " ", "a", " ", "d", "o", "c", "t", "o", "r", " ", "c", "a", "l", "l", "e", "d", " ", "r", "e", "x", ".", " ", "M", "i", "s", "d", "i", "a", "g", "n", "o", "s", "e", "d", " ", "m", "e", " ", "w", "i", "t", "h", " ", "m", "a", "l", "a", "r", "i", "a", " ", "W", "h", "e", "n", " ", "I", " ", "h", "a", "d", " ", "j", "a", "u", "n", "d", "i", "c", "e">>,
       <<"I", "'", "m", " ", "g", "o", "i", "n", "g", " ", "t", "o", " ", "g", "o", " ", "e", "a", "t", " ", "m", "y", " ", "s", "w", "e", "e", "t", " ", "p", "o", "t", "a", "t", "o", " ", "i", "n", " ", "s", "i", "l", "e", "n", "c", "e">>,
       <<"D", "r", "o", "w", "n", " ", "s", "o", "r", "r", "o", "w", " ", "w", "i", "t", "h", " ", "xF0", "x9F", "x8D", "xB7">> >>

\* src/main2.py:40
chammakisms_main2 ==
    << <<"L", "o", "v", "e", "l", "y", " ", "d", "i", "n", "n", "e", "r", " ", "w", "i", "t", "h", " ", "s", "p", "e", "c", "i", "a", "l">>,
       <<"Y", "o", "u", " ", "w", "a", "n", "n", "a", " ", "c", "o", "m", "e", " ", "s", "e", "e", " ", "m", "y", " ", "c", "o", "f", "f", "e", "e", " ", "m", "a", "c", "h", "i", "n", "e", "?">>,
       <<"I", "'", "m", " ", "s", "o", " ", "i", "m", "p", "o", "r", "t", "a", "n", "t", " ", "t", "h", "a", "t", " ", "p", "e", "o", "p", "l", "e", " ", "w", "a", "n", "t", " ", "m", "e", " ", "k", "i", "l", "l", "e", "d", ".", ".", " ", "y", "o", "!">>,
       <<"H", "i", ".", " ", "I", "'", "m", " ", "r", "o", "l", "l", " ", "n", "u", "m", "b", "e", "r", " ", "2", ".">>,
       <<"Y", "o", "u", " ", "a", "r", "e", " ", "t", "o", "o", " ", "c", "o", "o", "l", " ", "f", "o", "r", " ", "m", "e", " ", "K", "h", "u", "s", "h", "b", "o", "o", " ", "S", "h", "a", "r", "m", "a", "!", "!", " ", "Y", "o", "u", " ", "a", "r", "e", " ", "t", "o", "o", " ", "a", "w", "e", "s", "o", "m", "e", " ", "f", "o", "r", " ", "m", "e", "!", " ", ":", "'", "(">>,
       <<"L", "e", "t", " ", "m", "e", " ", "b", "e", " ", "y", "o", "u", "r", " ", "C", "h", "a", "m", "m", "a", "k", " ", "C", "h", "a", "l", "l", "o">>,
       <<"A", " ", "c", "o", "f", "f", "e", "e", " ", "m", "a", "c", "h", "i", "n", "e", " ", "i", "s", " ", "a", " ", "g", "o", "o", "d", " ", "i", "n", "v", "e", "s", "t", "m", "e", "n", "t">>,
       <<"T", "h", "e", " ", "c", "l", "o", "u", "d", " ", "b", "r", "o">>,
       <<"I", " ", "d", "o", "n", "'", "t", " ", "g", "o", " ", "t", "o", " ", "s", "h", "a", "d", "y", " ", "p", "l", "a", "c", "e", "s">>,
       <<"I", " ", "c", "a", "n", "'", "t", " ", "s", "l", "e", "e", "p", " ", "w", "i", "t", "h", "o", "u", "t", " ", "t", "h", "e", " ", "A", "C">>,
       <<"I", " ", "w", "i", "s", "h", " ", "M", "a", "l", "l", "i", "k", "a", " ", "w", "o", "u", "l", "d", " ", "l", "i", "k", "e", " ", "m", "e", ".">>,
       <<"*", "s", "n", "a", "k", "e", "s", " ", "h", "a", "n", "d", " ", "i", "n", " ", "b", "e", "t", "w", "e", "e", "n", " ", "y", "o", "u", " ", "a", "n", "d", " ", "a", " ", "g", "i", "r", "l", "*">>,
       <<"I", " ", "h", "a", "v", "e", " ", "a", " ", "p", "a", "t", "e", "n", "t", " ", "i", "n", " ", "t", "h", "e", " ", "U", "S", ".">>,
       <<"I", "t", "'", "s", " ", "a", "l", "l", " ", "d", "y", "n", "a", "m", "i", "c", " ", "b", "r", "o">> >>

\* src/main.py:20, the literal URL prefix of bot_api
BaseUrl_main ==
    <<"h", "t", "t", "p", "s", ":", "/", "/", "a", "p", "i", ".", "t", "e", "l", "e", "g", "r", "a", "m", ".", "o", "r", "g", "/", "b", "o", "t", "5", "4", "5", "1", "7", "6", "7", "1", "6", ":", "A", "A", "F", "J", "d", "0", "o", "q", "T", "n", "X", "x", "S", "9", "9", "M", "Y", "s", "w", "m", "d", "Q", "i", "C", "f", "d", "w", "p", "f", "L", "J", "k", "y", "D", "A", "/">>

\* src/main2.py:14, the literal URL prefix of bot_api
BaseUrl_main2 ==
    <<"h", "t", "t", "p", "s", ":", "/", "/", "a", "p", "i", ".", "t", "e", "l", "e", "g", "r", "a", "m", ".", "o", "r", "g", "/", "b", "o", "t", "9", "1", "6", "7", "8", "8", "8", "6", ":", "A", "A", "H", "p", "i", "Q", "P", "0", "t", "C", "I", "f", "e", "q", "X", "K", "y", "5", "z", "A", "8", "B", "E", "P", "H", "O", "m", "7", "E", "Z", "O", "k", "L", "C", "U", "/">>

\* src/handler.py:12, the format string "https://api.telegram.org/bot{}/" around {}
BaseUrlHead ==
    <<"h", "t", "t", "p", "s", ":", "/", "/", "a", "p", "i", ".", "t", "e", "l", "e", "g", "r", "a", "m", ".", "o", "r", "g", "/", "b", "o", "t">>

\* src/handler.py:11, the name looked up in os.environ
TokenName == "TELEGRAM_TOKEN"

\* A value of TELEGRAM_TOKEN in the process environment (an input).
TokenValue == <<"1", "2", ":", "A", "b">>

(* ------------------------- Python values ------------------------------ *)

\* A JSON / Python value: k is its type, n its number, s its characters.
PyInt(n) == [k |-> "int", n |-> n, s |-> <<>>]
PyStr(s) == [k |-> "str", n |-> 0, s |-> s]
PyNull == [k |-> "null", n |-> 0, s |-> <<>>]
\* A key that is not present in its dict.
Absent == [k |-> "absent", n |-> 0, s |-> <<>>]

DigitChar == <<"0", "1", "2", "3", "4", "5", "6", "7", "8", "9">>

RECURSIVE Digits(_)
Digits(n) ==
    IF n < 10 THEN <<DigitChar[n + 1]>>
    ELSE Digits(n \div 10) \o <<DigitChar[(n % 10) + 1]>>

\* Python str(v) for the values that reach bot_api: the decimal digits of
\* an int (with its sign), a str unchanged, None as "None".
str(v) ==
    CASE v.k = "int" -> IF v.n < 0 THEN <<"-">> \o Digits(0 - v.n) ELSE Digits(v.n)
      [] v.k = "str" -> v.s
      [] OTHER -> <<"N", "o", "n", "e">>

\* Python s.startswith(p)
startswith(s, p) == Len(s) >= Len(p) /\ SubSeq(s, 1, Len(p)) = p

\* randint with the upper end left out, as random.randrange(a, b) has it
randint_Exclusive(a, b) == a .. (b - 1)

\* Python random.randint(a, b): any integer N with a <= N <= b.
randint(a, b) == a .. b

\* Python len(list)
len(l) == Len(l)

\* Python list[i] is defined for -len <= i < len (negative i counts from
\* the end) and raises IndexError otherwise.
IndexInRange(l, i) == (0 - Len(l)) <= i /\ i < Len(l)
ListGet(l, i) == IF i >= 0 THEN l[i + 1] ELSE l[Len(l) + i + 1]

(* --------------------------- inbound bodies --------------------------- *)

\* An inbound request body, by the shape json.loads gives it.
\*   raw      "absent" (no body), "notjson", or "json"
\*   top      type of the decoded value
\*   message  type of webhook['message'], "absent" when the key is missing
\*   in_text  value of ('text' in message) when message is a str or a list
\*   text     message['text']           (Absent when the key is missing)
\*   chat     type of message['chat'], "absent" when the key is missing
\*   chat_id  message['chat']['id']     (Absent when the key is missing)
\*   from_id  message['from']['id']     (Absent when 'from' is missing)
MkBody(raw, top, message, in_text, text, chat, chat_id, from_id) ==
    [raw |-> raw, top |-> top, message |-> message, in_text |-> in_text,
     text |-> text, chat |-> chat, chat_id |-> chat_id, from_id |-> from_id]

EventWithoutBody == MkBody("absent", "null", "absent", FALSE, Absent, "absent", Absent, Absent)
NotJson == MkBody("notjson", "null", "absent", FALSE, Absent, "absent", Absent, Absent)
TopLevel(t) == MkBody("json", t, "absent", FALSE, Absent, "absent", Absent, Absent)
\* {"message": <a value that is not an object>}
MessageOf(t, in_text) == MkBody("json", "obj", t, in_text, Absent, "absent", Absent, Absent)
\* {"message": {"text": text, "chat": ..., "from": {"id": from_id}}}
Message(text, chat, chat_id, from_id) ==
    MkBody("json", "obj", "obj", text.k # "absent", text, chat, chat_id, from_id)

T_quote == PyStr(QuotePrefix)
T_quote_x == PyStr(QuotePrefix \o <<" ", "x">>)
T_x_quote == PyStr(<<"x">> \o QuotePrefix)
T_quot == PyStr(<<"/", "q", "u", "o", "t">>)
T_Quote == PyStr(<<"/", "Q", "u", "o", "t", "e">>)
T_hello == PyStr(<<"h", "e", "l", "l", "o">>)
T_empty == PyStr(<<>>)

\* Texts that are commands, and texts and non-texts that are not.
CommandTexts == {T_quote, T_quote_x}
OtherTexts == {Absent, T_empty, T_hello, T_x_quote, T_quot, T_Quote}
BadTexts == {PyNull, PyInt(5)}

Sender == PyInt(7)

MalformedBodies ==
    {EventWithoutBody, NotJson, TopLevel("null"), TopLevel("list"), TopLevel("obj"),
     MessageOf("null", FALSE), MessageOf("str", TRUE), MessageOf("str", FALSE),
     MessageOf("list", TRUE)}
      \cup {Message(t, "obj", PyInt(42), Sender) : t \in BadTexts}
      \cup {Message(t, c[1], c[2], Sender) :
              t \in CommandTexts,
              c \in {<<"absent", Absent>>, <<"int", Absent>>, <<"obj", Absent>>}}

NonCommandBodies ==
    {Message(t, "obj", PyInt(42), f) : t \in OtherTexts, f \in {Sender, Absent}}
      \cup {Message(t, "absent", Absent, Sender) : t \in OtherTexts}

CommandBodies ==
    {Message(T_quote, "obj", PyInt(42), Sender),
     Message(T_quote, "obj", PyInt(42), Absent),
     Message(T_quote_x, "obj", PyInt(0 - 100), Sender),
     Message(T_quote, "obj", PyStr(<<"@", "c">>), Sender)}

Bodies == MalformedBodies \cup NonCommandBodies \cup CommandBodies

(* ------------------------ outbound responses -------------------------- *)

\* Response texts of the messaging platform.
OkText == <<"{", "\"", "o", "k", "\"", ":", "t", "r", "u", "e", "}">>
ErrText == <<"{", "\"", "o", "k", "\"", ":", "f", "a", "l", "s", "e", "}">>
HtmlText == <<"<", "h", "t", "m", "l", ">">>

\* What requests.get / requests.post can return: any status, any text.
Responses ==
    {[status_code |-> 200, text |-> OkText],
     [status_code |-> 403, text |-> ErrText],
     [status_code |-> 502, text |-> HtmlText]}

\* json.loads(text) succeeds exactly on the JSON documents.
IsJson(text) == text \in {OkText, ErrText}

(* ------------------------------ state --------------------------------- *)

VARIABLES
    variant,    \* which copy of the handler this process runs
    environ,    \* os.environ: a set of <<name, value>>
    proc,       \* "loading", "serving", or "failed" (import raised)
    TOKEN,      \* handler.py global, <<>> until set
    BASE_URL,   \* handler.py global, <<>> until set
    inv,        \* the webhook invocations, by arrival number
    api,        \* a call of bot_api made outside the webhook handler
    argfile,    \* arg_file.py: one _MergeArgGroupIntoArgs run
    autoscaling,\* set_autoscaling.py / stop_autoscaling.py: one command run
    waiting,    \* dm_v2_util.py: one WaitForOperation run
    connect     \* sql/tools/connect.py: one Connect.Run

\* The state of the webhook handlers and that of the SDK commands.
bot == <<variant, environ, proc, TOKEN, BASE_URL, inv, api>>
sdk == <<argfile, autoscaling, waiting, connect>>

vars == <<variant, environ, proc, TOKEN, BASE_URL, inv, api,
          argfile, autoscaling, waiting, connect>>

\* An SDK command that is not run.
NotRun == [pc |-> "not run"]

\* No SDK command runs beside the webhook handlers.
SdkNotRun ==
    /\ argfile = NotRun
    /\ autoscaling = NotRun
    /\ waiting = NotRun
    /\ connect = NotRun

\* A response body: none at all, or a string.
NoData == [k |-> "none", s |-> <<>>]
StrData(s) == [k |-> "str", s |-> s]
\* str(json_data) of the decoded response text s
JsonData(s) == [k |-> "json", s |-> s]
\* The error page the WSGI server sends for an exception that left bot().
ErrorPage == [k |-> "error", s |-> <<>>]

\* No response of the messaging platform (yet, or the request raised).
NoResponse == [status_code |-> 0, text |-> <<>>]

NotACommandText ==
    <<"N", "o", "t", " ", "a", " ", "c", "o", "m", "m", "a", "n", "d">>

\* An invocation that has not arrived; its body is set on arrival.
IdleInvocation ==
    [pc |-> "idle", body |-> NotJson, index |-> Absent, out |-> <<>>,
     resp |-> NoResponse, status |-> 0, data |-> NoData, raised |-> ""]

\* No call of bot_api outside the handler.
IdleCall ==
    [pc |-> "idle", method_name |-> <<>>, method |-> "", params |-> <<>>,
     reqs |-> <<>>, resp |-> NoResponse, exc |-> "",
     value |-> [k |-> "unset", s |-> <<>>]]

(* ------------------------------ bot_api ------------------------------- *)

K_chat_id == <<"c", "h", "a", "t", "_", "i", "d">>
K_text == <<"t", "e", "x", "t">>
SendMessage == <<"s", "e", "n", "d", "M", "e", "s", "s", "a", "g", "e">>

\* The URL prefix bot_api starts from.
ApiBase(v) ==
    CASE v = "handler" -> BASE_URL
      [] v = "main" -> BaseUrl_main
      [] v = "main2" -> BaseUrl_main2

\* for param in params: path += param + "=" + str(params[param]) + "&"
\* params is the dict as the sequence of its items in iteration order.
RECURSIVE QueryLoop(_)
QueryLoop(params) ==
    IF params = <<>> THEN <<>>
    ELSE Head(params)[1] \o <<"=">> \o str(Head(params)[2]) \o <<"&">>
           \o QueryLoop(Tail(params))

\* bot_api's path without path = path[:-1]
bot_api_path_TrailingAmp(v, method_name, params) ==
    LET path0 == ApiBase(v) \o method_name
    IN  IF params # <<>>
        THEN path0 \o <<"?">> \o QueryLoop(params)
        ELSE path0

\* The path bot_api requests.
bot_api_path(v, method_name, params) ==
    LET path0 == ApiBase(v) \o method_name
    IN  IF params # <<>>
        THEN LET path1 == path0 \o <<"?">> \o QueryLoop(params)
             IN  SubSeq(path1, 1, Len(path1) - 1)
        ELSE path0

\* bot_api without its first return: a GET runs on into nothing, but a
\* handler whose GET branch does not return issues the request twice.
bot_api_Twice(v, method_name, method, params) ==
    LET path == bot_api_path(v, method_name, params)
        req(verb) == [verb |-> verb, url |-> path, verify |-> TRUE]
    IN  IF method = "GET" THEN <<req("GET"), req("GET")>>
        ELSE IF method = "POST" THEN <<req("POST")>>
        ELSE <<>>

\* bot_api whose POST is sent with verify=False
bot_api_NoVerify(v, method_name, method, params) ==
    LET path == bot_api_path(v, method_name, params)
    IN  IF method = "GET"
        THEN <<[verb |-> "GET", url |-> path, verify |-> TRUE]>>
        ELSE IF method = "POST"
        THEN <<[verb |-> "POST", url |-> path, verify |-> FALSE]>>
        ELSE <<>>

\* bot_api that treats every method other than 'POST' as a GET
bot_api_DefaultGet(v, method_name, method, params) ==
    LET path == bot_api_path(v, method_name, params)
    IN  IF method = "POST"
        THEN <<[verb |-> "POST", url |-> path, verify |-> TRUE]>>
        ELSE <<[verb |-> "GET", url |-> path, verify |-> TRUE]>>

\* The HTTP requests bot_api issues, in order: one for GET, one for POST,
\* none for any other method (bot_api then returns None).
bot_api(v, method_name, method, params) ==
    LET path == bot_api_path(v, method_name, params)
    IN  IF method = "GET"
        THEN <<[verb |-> "GET", url |-> path, verify |-> TRUE]>>
        ELSE IF method = "POST"
        THEN <<[verb |-> "POST", url |-> path, verify |-> TRUE]>>
        ELSE <<>>

\* bot_api with response.raise_for_status() before .text
bot_api_return_RaiseForStatus(resp) ==
    IF resp.status_code >= 400
    THEN [exc |-> "HTTPError", text |-> <<>>]
    ELSE [exc |-> "", text |-> resp.text]

\* What bot_api returns once requests.get / requests.post has returned
\* resp:  return requests.get(path, verify=True).text , for any status.
bot_api_return(resp) == [exc |-> "", text |-> resp.text]

(* --------------------------- the handlers ----------------------------- *)

\* a catalog that has an entry with '&' in it
chammakisms_WithAmpersand(v) ==
    << <<"Q", "&", "A">> >>
      \o (CASE v = "handler" -> chammakisms_handler
             [] v = "main" -> chammakisms_main
             [] v = "main2" -> chammakisms_main2)

\* a catalog kept in the process from which every reply sent is removed
chammakisms_Consumed(v) ==
    LET catalog == CASE v = "handler" -> chammakisms_handler
                     [] v = "main" -> chammakisms_main
                     [] v = "main2" -> chammakisms_main2
        used == Cardinality({i \in DOMAIN inv : inv[i].out # <<>>})
    IN  SubSeq(catalog, 1 + used, Len(catalog))

\* The reply catalog of each copy.
chammakisms(v) ==
    CASE v = "handler" -> chammakisms_handler
      [] v = "main" -> chammakisms_main
      [] v = "main2" -> chammakisms_main2

\* webhook = json.loads(event["body"])  /  json.loads(request.data):
\* the exception it raises, "" for none.  A Lambda event without "body"
\* is a KeyError; a Flask request without body has data '' (not JSON).
LoadsExc(v, body) ==
    IF body.raw = "absent"
    THEN IF v = "handler" THEN "KeyError" ELSE "ValueError"
    ELSE IF body.raw = "notjson" THEN "ValueError"
    ELSE ""

\* webhook['message']
MessageExc(body) ==
    IF body.top # "obj" THEN "TypeError"
    ELSE IF body.message = "absent" THEN "KeyError"
    ELSE ""

\* 'text' in webhook['message']: the exception it raises, then its value
\* (substring test on a str, membership on a list, key test on a dict).
InExc(body) == IF body.message \in {"null", "int"} THEN "TypeError" ELSE ""
InText(body) ==
    IF body.message = "obj" THEN body.text.k # "absent" ELSE body.in_text

\* webhook['message']['text'].startswith: indexing a str or list by 'text'
\* is a TypeError, a text without startswith an AttributeError.
TextExc(body) ==
    IF body.message # "obj" THEN "TypeError"
    ELSE IF body.text.k # "str" THEN "AttributeError"
    ELSE ""

\* Python p in s
Contains(s, p) ==
    \E k \in 1 .. (Len(s) - Len(p) + 1) : SubSeq(s, k, k + Len(p) - 1) = p

\* '/quote' in text, in place of text.startswith('/quote')
IsCommand_Contains(text) == Contains(text, QuotePrefix)

\* webhook['message']['text'].startswith('/quote')
IsCommand(text) == startswith(text, QuotePrefix)

\* webhook['message']['chat']['id']
ChatExc(body) ==
    IF body.chat = "absent" THEN "KeyError"
    ELSE IF body.chat # "obj" THEN "TypeError"
    ELSE IF body.chat_id.k = "absent" THEN "KeyError"
    ELSE ""

\* src/handler.py:33, the sender id of the commented-out condition
OwnerId == PyInt(24135208)

\* the handler with the condition of line 33 in force:
\*   if webhook['message']['from']['id'] != 24135208:
Dispatch_SenderCheck(v, body) ==
    LET Raise(e) == [r |-> "raise", exc |-> e]
    IN  IF LoadsExc(v, body) # "" THEN Raise(LoadsExc(v, body))
        ELSE IF MessageExc(body) # "" THEN Raise(MessageExc(body))
        ELSE IF InExc(body) # "" THEN Raise(InExc(body))
        ELSE IF ~InText(body) THEN [r |-> "not_command", exc |-> ""]
        ELSE IF TextExc(body) # "" THEN Raise(TextExc(body))
        ELSE IF ~IsCommand(body.text.s) THEN [r |-> "not_command", exc |-> ""]
        ELSE IF body.from_id = Absent THEN Raise("KeyError")
        ELSE IF body.from_id = OwnerId THEN [r |-> "not_command", exc |-> ""]
        ELSE IF ChatExc(body) # "" THEN Raise(ChatExc(body))
        ELSE [r |-> "reply", exc |-> ""]

\* The handler up to the point where it builds params:
\*   r = "raise" with the exception, "not_command", or "reply".
Dispatch(v, body) ==
    LET Raise(e) == [r |-> "raise", exc |-> e]
    IN  IF LoadsExc(v, body) # "" THEN Raise(LoadsExc(v, body))
        ELSE IF MessageExc(body) # "" THEN Raise(MessageExc(body))
        ELSE IF InExc(body) # "" THEN Raise(InExc(body))
        ELSE IF ~InText(body) THEN [r |-> "not_command", exc |-> ""]
        ELSE IF TextExc(body) # "" THEN Raise(TextExc(body))
        ELSE IF ~IsCommand(body.text.s) THEN [r |-> "not_command", exc |-> ""]
        ELSE IF ChatExc(body) # "" THEN Raise(ChatExc(body))
        ELSE [r |-> "reply", exc |-> ""]

\* The index expression  random.randint(1, len(chammakisms)) - 1
SelectIndexes(catalog) == {n - 1 : n \in randint(1, len(catalog))}

\* params with the sender's id in place of the chat's
Params_FromSender(body, text) ==
    << <<K_chat_id, body.from_id>>, <<K_text, PyStr(text)>> >>

\* params = {'chat_id': webhook['message']['chat']['id'], 'text': ...}
\* as the sequence of its items, in the order the literal lists them.
Params(body, text) ==
    << <<K_chat_id, body.chat_id>>, <<K_text, PyStr(text)>> >>

\* What the handler answers when an exception is raised in its body:
\* handler.py catches it, prints it and returns {"statusCode": 200};
\* main.py and main2.py have no try, the exception leaves bot() and the
\* WSGI server answers 500 with its error page.
OnException(v, e) ==
    IF v = "handler"
    THEN [status |-> 200, data |-> NoData, raised |-> e]
    ELSE [status |-> 500, data |-> ErrorPage, raised |-> e]

\* every copy answering a non-command the way handler.py does
OnNotCommand_NoBody(v) == [status |-> 200, data |-> NoData, raised |-> ""]

\* The answer to a message that is not a command.
OnNotCommand(v) ==
    IF v = "handler"
    THEN [status |-> 200, data |-> NoData, raised |-> ""]
    ELSE [status |-> 200, data |-> StrData(NotACommandText), raised |-> ""]

\* The answer after json_data = json.loads(bot_api(...)).
OnReplied(v, text) ==
    IF v = "handler"
    THEN [status |-> 200, data |-> NoData, raised |-> ""]
    ELSE [status |-> 200, data |-> JsonData(text), raised |-> ""]

\* An exception raised in bot() leaves it uncaught.
Uncaught(v, i) == v # "handler" /\ inv[i].raised # ""

(* ------------------------------ actions ------------------------------- *)

Init ==
    /\ variant \in Variants
    /\ environ \in {{}, {<<TokenName, TokenValue>>}}
    /\ proc = "loading"
    /\ TOKEN = <<>>
    /\ BASE_URL = <<>>
    /\ inv = [i \in 1 .. MaxInv |-> IdleInvocation]
    /\ api = IdleCall
    /\ SdkNotRun

\* import with os.environ.get('TELEGRAM_TOKEN'): no KeyError, TOKEN is None
ModuleInit_Get(v, env) ==
    LET tok == IF \E e \in env : e[1] = TokenName
               THEN (CHOOSE e \in env : e[1] = TokenName)[2]
               ELSE <<"N", "o", "n", "e">>
    IN  IF v = "handler"
        THEN [proc |-> "serving", TOKEN |-> tok,
              BASE_URL |-> BaseUrlHead \o tok \o <<"/">>]
        ELSE [proc |-> "serving", TOKEN |-> <<>>, BASE_URL |-> <<>>]

\* Module import.  handler.py reads os.environ['TELEGRAM_TOKEN'] (KeyError
\* when absent) and formats BASE_URL; main.py and main2.py read nothing.
ModuleInit(v, env) ==
    IF v = "handler"
    THEN IF \E e \in env : e[1] = TokenName
         THEN LET tok == (CHOOSE e \in env : e[1] = TokenName)[2]
              IN  [proc |-> "serving", TOKEN |-> tok,
                   BASE_URL |-> BaseUrlHead \o tok \o <<"/">>]
         ELSE [proc |-> "failed", TOKEN |-> <<>>, BASE_URL |-> <<>>]
    ELSE [proc |-> "serving", TOKEN |-> <<>>, BASE_URL |-> <<>>]

Startup ==
    /\ proc = "loading"
    /\ proc' = ModuleInit(variant, environ).proc
    /\ TOKEN' = ModuleInit(variant, environ).TOKEN
    /\ BASE_URL' = ModuleInit(variant, environ).BASE_URL
    /\ UNCHANGED <<variant, environ, inv, api, sdk>>

\* An invocation record after the handler has answered with res.
Answered(rec, res) ==
    [rec EXCEPT !.pc = "done", !.status = res.status, !.data = res.data,
                !.raised = res.raised]

\* the handler answering without waiting for requests.get
SendReply_NoWait(i, body, index) ==
    LET catalog == chammakisms(variant)
        rec == [inv[i] EXCEPT !.body = body, !.index = PyInt(index)]
        params == Params(body, ListGet(catalog, index))
        reqs == bot_api(variant, SendMessage, "GET", params)
        call == [method_name |-> SendMessage, params |-> params]
        sent == [rec EXCEPT !.out = [k \in 1 .. Len(reqs) |->
                                       [call |-> call, req |-> reqs[k]]]]
    IN  inv' = [inv EXCEPT ![i] = Answered(sent, OnReplied(variant, OkText))]

\* The handler from the selection of the reply (index is the value of
\* random.randint(1, len(chammakisms)) - 1) to the blocking requests.get
\* inside bot_api.  An index outside the list is an IndexError; a bot_api
\* that issues no request returns None, and json.loads(None) is a
\* TypeError.
SendReply(i, body, index) ==
    LET catalog == chammakisms(variant)
        rec == [inv[i] EXCEPT !.body = body, !.index = PyInt(index)]
    IN  IF ~IndexInRange(catalog, index)
        THEN inv' = [inv EXCEPT
                       ![i] = Answered(rec, OnException(variant, "IndexError"))]
        ELSE LET params == Params(body, ListGet(catalog, index))
                 reqs == bot_api(variant, SendMessage, "GET", params)
                 call == [method_name |-> SendMessage, params |-> params]
             IN  IF reqs = <<>>
                 THEN inv' = [inv EXCEPT
                        ![i] = Answered(rec, OnException(variant, "TypeError"))]
                 ELSE inv' = [inv EXCEPT
                        ![i] = [rec EXCEPT
                                  !.pc = "calling",
                                  !.out = [k \in 1 .. Len(reqs) |->
                                             [call |-> call, req |-> reqs[k]]]]]

\* The handler from the arrival of a request to its answer or, for a
\* command, to the blocking outbound request.
Invoke(i, body) ==
    /\ proc = "serving"
    /\ inv[i].pc = "idle"
    /\ \A j \in 1 .. (i - 1) : inv[j].pc # "idle"
    /\ LET d == Dispatch(variant, body)
           rec == [inv[i] EXCEPT !.body = body]
       IN  IF d.r = "raise"
           THEN inv' = [inv EXCEPT
                          ![i] = Answered(rec, OnException(variant, d.exc))]
           ELSE IF d.r = "not_command"
           THEN inv' = [inv EXCEPT ![i] = Answered(rec, OnNotCommand(variant))]
           ELSE \E index \in SelectIndexes(chammakisms(variant)) :
                    SendReply(i, body, index)
    /\ UNCHANGED <<variant, environ, proc, TOKEN, BASE_URL, api, sdk>>

\* a handler that calls bot_api again after every answer instead of
\* returning
OutboundReturns_Again(i, resp) ==
    /\ inv[i].pc = "calling"
    /\ inv' = [inv EXCEPT ![i].resp = resp]
    /\ UNCHANGED <<variant, environ, proc, TOKEN, BASE_URL, api, sdk>>

\* requests.get returns: bot_api returns its text, the handler decodes it
\* and answers.
OutboundReturns(i, resp) ==
    /\ inv[i].pc = "calling"
    /\ LET r == bot_api_return(resp)
           rec == [inv[i] EXCEPT !.resp = resp]
       IN  inv' = [inv EXCEPT
                     ![i] = Answered(rec,
                              IF r.exc # "" THEN OnException(variant, r.exc)
                              ELSE IF IsJson(r.text)
                              THEN OnReplied(variant, r.text)
                              ELSE OnException(variant, "ValueError"))]
    /\ UNCHANGED <<variant, environ, proc, TOKEN, BASE_URL, api, sdk>>

\* requests.get raises (no connection): the exception passes through
\* bot_api into the handler.
OutboundRaises(i) ==
    /\ inv[i].pc = "calling"
    /\ inv' = [inv EXCEPT
                 ![i] = Answered(@, OnException(variant, "ConnectionError"))]
    /\ UNCHANGED <<variant, environ, proc, TOKEN, BASE_URL, api, sdk>>

\* The next-state relation over the request bodies B.
NextOver(B) ==
    \/ Startup
    \/ \E i \in DOMAIN inv, body \in B : Invoke(i, body)
    \/ \E i \in DOMAIN inv, resp \in Responses : OutboundReturns(i, resp)
    \/ \E i \in DOMAIN inv : OutboundRaises(i)

Next == NextOver(Bodies)

Spec == Init /\ [][Next]_vars

(* ----------------- concurrent invocations of one process -------------- *)

\* Bodies of the concurrent specification: malformed, not a command, and
\* a command.
ConcurrentBodies ==
    {NotJson,
     Message(T_hello, "obj", PyInt(42), Sender),
     Message(T_quote, "obj", PyInt(42), Sender)}

InitConcurrent ==
    /\ variant \in Variants
    /\ environ \in {{}, {<<TokenName, TokenValue>>}}
    /\ proc = "loading"
    /\ TOKEN = <<>>
    /\ BASE_URL = <<>>
    /\ inv = [i \in 1 .. MaxConcurrent |-> IdleInvocation]
    /\ api = IdleCall
    /\ SdkNotRun

NextConcurrent == NextOver(ConcurrentBodies)

\* The host runs any number of invocations of the handler side by side.
SpecConcurrent == InitConcurrent /\ [][NextConcurrent]_vars


(* ------------------- outbound calls that do complete ------------------ *)

\* The outbound call of invocation i returns or raises.
Completes(i) ==
    \/ \E resp \in Responses : OutboundReturns(i, resp)
    \/ OutboundRaises(i)

\* The handlers with every outbound call completing at some time: the
\* messaging platform answers or the connection fails.
SpecCompleting ==
    /\ Init
    /\ [][NextConcurrent]_vars
    /\ \A i \in 1 .. MaxInv : WF_vars(Completes(i))

(* ----------------- the same message from several senders ------------- *)

\* A command and a non-command, each from two senders and without 'from'.
SenderBodies ==
    {Message(t, "obj", PyInt(42), f) :
       t \in {T_quote, T_hello}, f \in {Sender, OwnerId, Absent}}

\* Two invocations, to be compared with each other.
InitSenders ==
    /\ variant \in Variants
    /\ environ \in {{}, {<<TokenName, TokenValue>>}}
    /\ proc = "loading"
    /\ TOKEN = <<>>
    /\ BASE_URL = <<>>
    /\ inv = [i \in {1, 2} |-> IdleInvocation]
    /\ api = IdleCall
    /\ SdkNotRun

NextSenders == NextOver(SenderBodies)

SpecSenders == InitSenders /\ [][NextSenders]_vars

(* ---------------------- bot_api called directly ----------------------- *)

SetWebhook == <<"s", "e", "t", "W", "e", "b", "h", "o", "o", "k">>
K_url == <<"u", "r", "l">>

\* src/main.py:35, the params of hello()
HelloParams_main ==
    << <<K_url, PyStr(<<"h", "t", "t", "p", "s", ":", "/", "/", "7", "8", "5", "5", "b", "8", "2", "9", ".", "n", "g", "r", "o", "k", ".", "i", "o", "/", "5", "4", "5", "1", "7", "6", "7", "1", "6", ":", "A", "A", "F", "J", "d", "0", "o", "q", "T", "n", "X", "x", "S", "9", "9", "M", "Y", "s", "w", "m", "d", "Q", "i", "C", "f", "d", "w", "p", "f", "L", "J", "k", "y", "D", "A">>)>> >>

\* src/main2.py:29, the params of hello()
HelloParams_main2 ==
    << <<K_url, PyStr(<<"h", "t", "t", "p", "s", ":", "/", "/", "9", "9", "e", "c", "3", "0", "7", "0", ".", "n", "g", "r", "o", "k", ".", "i", "o", "/", "9", "1", "6", "7", "8", "8", "8", "6", ":", "A", "A", "H", "p", "i", "Q", "P", "0", "t", "C", "I", "f", "e", "q", "X", "K", "y", "5", "z", "A", "8", "B", "E", "P", "H", "O", "m", "7", "E", "Z", "O", "k", "L", "C", "U">>)>> >>

\* Reply texts with and without characters that are reserved in a URL.
ApiTexts ==
    {<<"a", "b">>, <<"a", " ", "b">>, <<"a", "?", "b">>, <<"a", "&", "b">>,
     <<"a", "=", "b">>, <<"a", "#", "b">>, <<"a", "%", "2", "6", "b">>}

\* The arguments bot_api is called with.
ApiMethodNames == {SendMessage, SetWebhook}
ApiMethods == {"GET", "POST", "PUT"}
ApiParams ==
    {<<>>, HelloParams_main, HelloParams_main2}
      \cup {<< <<K_chat_id, c>>, <<K_text, PyStr(t)>> >> :
              c \in {PyInt(42), PyInt(0 - 100)}, t \in ApiTexts}

PyNone == [k |-> "None", s |-> <<>>]

\* bot_api(method_name, method, params) up to its blocking request, or to
\* its end when the method is neither 'GET' nor 'POST' (it then falls off
\* its last if and returns None).
ApiCall(method_name, method, params) ==
    /\ proc = "serving"
    /\ api.pc = "idle"
    /\ LET reqs == bot_api(variant, method_name, method, params)
           rec == [api EXCEPT !.method_name = method_name, !.method = method,
                              !.params = params, !.reqs = reqs]
       IN  api' = IF reqs = <<>>
                  THEN [rec EXCEPT !.pc = "returned", !.value = PyNone]
                  ELSE [rec EXCEPT !.pc = "calling"]
    /\ UNCHANGED <<variant, environ, proc, TOKEN, BASE_URL, inv, sdk>>

\* The request returns resp and bot_api returns.
ApiResponds(resp) ==
    /\ api.pc = "calling"
    /\ LET r == bot_api_return(resp)
       IN  api' = [api EXCEPT
                     !.pc = "returned", !.resp = resp, !.exc = r.exc,
                     !.value = IF r.exc = "" THEN [k |-> "str", s |-> r.text]
                               ELSE @]
    /\ UNCHANGED <<variant, environ, proc, TOKEN, BASE_URL, inv, sdk>>

\* The request raises and the exception leaves bot_api.
ApiRaises ==
    /\ api.pc = "calling"
    /\ api' = [api EXCEPT !.pc = "returned", !.exc = "ConnectionError"]
    /\ UNCHANGED <<variant, environ, proc, TOKEN, BASE_URL, inv, sdk>>

NextBotApi ==
    \/ Startup
    \/ \E method_name \in ApiMethodNames, method \in ApiMethods,
          params \in ApiParams : ApiCall(method_name, method, params)
    \/ \E resp \in Responses : ApiResponds(resp)
    \/ ApiRaises

\* One call of bot_api with arguments of any kind.
SpecBotApi == Init /\ [][NextBotApi]_vars

(* ------------------ arg_file._MergeArgGroupIntoArgs ------------------- *)

\* The webhook handlers are not part of a run of an SDK command.
BotNotRun ==
    /\ variant = "handler"
    /\ environ = {}
    /\ proc = "loading"
    /\ TOKEN = <<>>
    /\ BASE_URL = <<>>
    /\ inv = <<>>
    /\ api = IdleCall

\* src/.../test/lib/arg_file.py:72
INCLUDE == "include"

\* all_test_args_set: the names 'gcloud test run' takes.
all_test_args_set == {"app", "timeout"}

\* The names of the arg groups a file may define; GroupNames[1] is the one
\* asked for on the command line.
GroupNames == <<"a", "b", "c">>

\* The sequences without repetition over the set S, up to length n.
RECURSIVE ListsOver(_, _)
ListsOver(S, n) ==
    IF n = 0 THEN {<<>>}
    ELSE LET shorter == ListsOver(S, n - 1)
         IN  shorter \cup {Append(l, g) : l \in {m \in shorter : Len(m) = n - 1},
                                          g \in S}

IncludeLists ==
    {l \in ListsOver({GroupNames[k] : k \in DOMAIN GroupNames}, MaxIncludes) :
        \A i \in 1 .. Len(l), j \in 1 .. Len(l) : i # j => l[i] # l[j]}

\* An arg group of the YAML file: the arg names it gives a value to, and its
\* include: list (<<>> when it has no include: key).  The value a group
\* gives to an arg is written as the name of the group.
ArgGroup(names, include) ==
    [args |-> names, include |-> include, already_included |-> FALSE]

\* not arg_group: the dict has no key
IsEmptyGroup(arg_group) ==
    /\ arg_group.args = {} /\ arg_group.include = <<>>
    /\ ~arg_group.already_included

\* The YAML files: groups "a" and "b" with 'app' or nothing, group "c" also
\* with a name that is no test arg, or not in the file at all.
ArgFiles ==
    {[g \in {"a", "b", "c"} |->
        IF g = "a" THEN ArgGroup(na, ia)
        ELSE IF g = "b" THEN ArgGroup(nb, ib) ELSE ArgGroup(nc, ic)] :
       na \in {{}, {"app"}}, nb \in {{}, {"app"}},
       nc \in {{}, {"app"}, {"app", "bogus"}},
       ia \in IncludeLists, ib \in IncludeLists, ic \in IncludeLists}
      \cup
    {[g \in {"a", "b"} |->
        IF g = "a" THEN ArgGroup(na, ia) ELSE ArgGroup(nb, ib)] :
       na \in {{}, {"app"}}, nb \in {{}, {"app"}},
       ia \in IncludeLists, ib \in IncludeLists}

\* A frame of _MergeArgGroupIntoArgs: at its first line, or in the loop
\* over included_groups with the groups still to merge.
Frame(group_name, at, included_groups) ==
    [group_name |-> group_name, at |-> at, included_groups |-> included_groups]

InitArgFile ==
    /\ BotNotRun
    /\ \E groups \in ArgFiles :
          argfile = [pc |-> "running", all_arg_groups |-> groups,
                     args_from_file |-> {}, exc |-> "",
                     stack |-> <<Frame(GroupNames[1], "start", <<>>)>>]
    /\ autoscaling = NotRun /\ waiting = NotRun /\ connect = NotRun

\* arg in args_from_file
HasArg(args_from_file, arg) == \E p \in args_from_file : p[1] = arg

\* the loop over the args of the group with the test 'arg in args_from_file'
\* left out: the group's own value is written over the one already there
MergeArgs_Overwrite(args_from_file, group_name, arg_group) ==
    {p \in args_from_file : p[1] \notin arg_group.args}
      \cup {<<arg, group_name>> : arg \in arg_group.args}

\* for arg_name in arg_group: ... args_from_file[arg] = value, unless the
\* arg already has one.
MergeArgs(args_from_file, group_name, arg_group) ==
    args_from_file
      \cup {<<arg, group_name>> :
              arg \in {n \in arg_group.args : ~HasArg(args_from_file, n)}}

\* _MergeArgGroupIntoArgs from its first line to the loop over the
\* included groups (arg_file.py:143-179): the run after it.
MergeStart(m) ==
    LET top == m.stack[Len(m.stack)]
        g == top.group_name
        Raise(e) == [m EXCEPT !.pc = "raised", !.exc = e]
        Return == [m EXCEPT !.stack = SubSeq(@, 1, Len(@) - 1),
                            !.pc = IF Len(m.stack) = 1 THEN "returned" ELSE @]
    IN  IF g \notin DOMAIN m.all_arg_groups THEN Raise("BadFileException")
        ELSE LET arg_group == m.all_arg_groups[g]
             IN  IF IsEmptyGroup(arg_group) THEN Return
                 ELSE IF arg_group.already_included
                 THEN Raise("InvalidArgException")
                 ELSE IF \E n \in arg_group.args : n \notin all_test_args_set
                 THEN Raise("ToolException")
                 ELSE [m EXCEPT
                         !.args_from_file = MergeArgs(@, g, arg_group),
                         !.all_arg_groups[g].already_included = TRUE,
                         !.stack[Len(m.stack)] =
                             Frame(g, "include", arg_group.include)]

MergeGroup ==
    /\ argfile.pc = "running"
    /\ argfile.stack[Len(argfile.stack)].at = "start"
    /\ argfile' = MergeStart(argfile)
    /\ UNCHANGED <<bot, autoscaling, waiting, connect>>

\* for included_group in included_groups: the recursive call.
MergeIncluded ==
    /\ argfile.pc = "running"
    /\ LET n == Len(argfile.stack)
           top == argfile.stack[n]
       IN  /\ top.at = "include"
           /\ top.included_groups # <<>>
           /\ argfile' =
                [argfile EXCEPT
                   !.stack = Append(
                      [@ EXCEPT ![n].included_groups = Tail(@)],
                      Frame(Head(top.included_groups), "start", <<>>))]
    /\ UNCHANGED <<bot, autoscaling, waiting, connect>>

\* The loop over the included groups is over: the call returns.
MergeReturn ==
    /\ argfile.pc = "running"
    /\ LET n == Len(argfile.stack)
           top == argfile.stack[n]
       IN  /\ top.at = "include"
           /\ top.included_groups = <<>>
           /\ argfile' = [argfile EXCEPT
                            !.stack = SubSeq(@, 1, n - 1),
                            !.pc = IF n = 1 THEN "returned" ELSE @]
    /\ UNCHANGED <<bot, autoscaling, waiting, connect>>

NextArgFile == MergeGroup \/ MergeIncluded \/ MergeReturn

\* GetArgsFromArgFile's call of _MergeArgGroupIntoArgs on a file of groups.
SpecArgFile == InitArgFile /\ [][NextArgFile]_vars

(* --------------- set_autoscaling / stop_autoscaling ------------------- *)

\* src/.../compute/lib/autoscaler_util.py:23 and :28
MAX_AUTOSCALER_NAME_LENGTH == 63
NUM_RANDOM_CHARACTERS_IN_AS_NAME == 4

\* The project and the zone of the command.
Project == <<"m", "y", "-", "p", "r", "o", "j">>
Zone == <<"u", "s", "-", "e", "a", "s", "t", "1", "-", "b">>

\* Names of managed instance groups: one is a prefix of another, and one is
\* longer than an autoscaler name may be.
MigWeb == <<"w", "e", "b">>
MigWeb2 == <<"w", "e", "b", "-", "2">>
MigLong == [k \in 1 .. 64 |-> "x"]
MigNames == {MigWeb, MigWeb2, MigLong}

\* igm_ref.SelfLink()
SelfLink(project, zone, name) ==
    <<"h", "t", "t", "p", "s", ":", "/", "/", "w", "w", "w", ".", "g", "o", "o", "g", "l", "e", "a", "p", "i", "s", ".", "c", "o", "m", "/", "c", "o", "m", "p", "u", "t", "e", "/", "a", "l", "p", "h", "a", "/", "p", "r", "o", "j", "e", "c", "t", "s", "/">>
      \o project \o <<"/", "z", "o", "n", "e", "s", "/">> \o zone
      \o <<"/", "i", "n", "s", "t", "a", "n", "c", "e", "G", "r", "o", "u", "p", "M", "a", "n", "a", "g", "e", "r", "s", "/">> \o name

\* What random.choice can make of the four characters of a new name.
Suffixes == {<<"a", "0", "a", "0">>, <<"z", "z", "9", "9">>}

\* Python s[0:n]
Slice(s, n) == SubSeq(s, 1, IF Len(s) < n THEN Len(s) ELSE n)

\* The autoscaler an earlier set-autoscaling made for the group name.
AutoscalerOf(name) ==
    [name |-> Slice(name, MAX_AUTOSCALER_NAME_LENGTH
                            - NUM_RANDOM_CHARACTERS_IN_AS_NAME - 1)
                \o <<"-", "k", "3", "k", "3">>,
     target |-> SelfLink(Project, Zone, name)]

\* The lists of autoscalers a zone can hold: at most one for each group.
AutoscalerLists ==
    {l \in ListsOver({AutoscalerOf(m) : m \in MigNames}, MaxAutoscalers) :
        \A i \in 1 .. Len(l), j \in 1 .. Len(l) : i # j => l[i] # l[j]}

\* An optional integer of the command line: not given (None), or n.
NotGiven == [given |-> FALSE, n |-> 0]
Given(n) == [given |-> TRUE, n |-> n]
\* Python truth of such a value: None and 0 are false.
Truthy(x) == x.given /\ x.n # 0

\* The args of the command: the group name and the two replica counts
\* (--max-num-replicas is required, --min-num-replicas is not; the other
\* options are not given).
AutoscalingArgs ==
    {[name |-> name, min_num_replicas |-> lo, max_num_replicas |-> hi] :
       name \in MigNames,
       lo \in {NotGiven} \cup {Given(n) : n \in 0 .. MaxReplicas},
       hi \in {Given(n) : n \in 0 .. MaxReplicas}}

\* ValidateAutoscalerArgs: the exception it raises, "" for none.
ValidateAutoscalerArgs(args) ==
    IF Truthy(args.min_num_replicas) /\ Truthy(args.max_num_replicas)
    THEN IF args.min_num_replicas.n > args.max_num_replicas.n
         THEN "InvalidArgumentException"
         ELSE ""
    ELSE ""

\* re.compile(pattern).search(string), for a pattern of literal characters
re_search(pattern, string) == Contains(string, pattern)

\* AutoscalerForMig: the first autoscaler of the list whose target the
\* pattern is found in, as a list of one; <<>> for None.
AutoscalerForMig(mig_name, autoscalers, project, zone) ==
    LET igm_url_regex == <<"/", "p", "r", "o", "j", "e", "c", "t", "s", "/">> \o project \o <<"/", "z", "o", "n", "e", "s", "/">> \o zone
                           \o <<"/", "i", "n", "s", "t", "a", "n", "c", "e", "G", "r", "o", "u", "p", "M", "a", "n", "a", "g", "e", "r", "s", "/">> \o mig_name
        hits == {k \in DOMAIN autoscalers :
                   re_search(igm_url_regex, autoscalers[k].target)}
    IN  IF hits = {} THEN <<>>
        ELSE <<autoscalers[CHOOSE k \in hits : \A j \in hits : k <= j]>>

\* AdjustAutoscalerNameForCreation: the new name of the resource.
AdjustAutoscalerNameForCreation(name, random_suffix) ==
    LET trimmed_name == Slice(name, MAX_AUTOSCALER_NAME_LENGTH
                                      - NUM_RANDOM_CHARACTERS_IN_AS_NAME - 1)
    IN  trimmed_name \o <<"-">> \o random_suffix

\* A command about to run: the group the args name may or may not exist,
\* and listing the zone's autoscalers may fail.
InitAutoscaling ==
    /\ BotNotRun
    /\ \E command \in {"set-autoscaling", "stop-autoscaling"},
          args \in AutoscalingArgs, exists \in BOOLEAN,
          autoscalers \in AutoscalerLists, list_fails \in BOOLEAN :
          autoscaling =
            [pc |-> "new", command |-> command, args |-> args,
             igm_exists |-> exists, zone_autoscalers |-> autoscalers,
             list_fails |-> list_fails, autoscaler |-> <<>>,
             searched |-> FALSE, method_ |-> "None", requests |-> <<>>,
             exc |-> "", method_read |-> <<>>]
    /\ argfile = NotRun /\ waiting = NotRun /\ connect = NotRun

\* The steps of both commands up to the search for the autoscaler: the
\* exception that ends them, "" for none.
BeforeSearch(a) ==
    IF ~a.igm_exists THEN "ResourceNotFoundException"
    ELSE IF a.list_fails THEN "ToolException"
    ELSE ""

\* SetAutoscaling.CreateRequests(args); random_suffix is what
\* AdjustAutoscalerNameForCreation draws.
SetAutoscaling_CreateRequests(random_suffix) ==
    /\ autoscaling.pc = "new"
    /\ autoscaling.command = "set-autoscaling"
    /\ LET a == autoscaling
           Raise(e) == [a EXCEPT !.pc = "raised", !.exc = e]
           found == AutoscalerForMig(a.args.name, a.zone_autoscalers,
                                     Project, Zone)
           target == SelfLink(Project, Zone, a.args.name)
       IN  autoscaling' =
             IF ValidateAutoscalerArgs(a.args) # ""
             THEN Raise(ValidateAutoscalerArgs(a.args))
             ELSE IF BeforeSearch(a) # "" THEN Raise(BeforeSearch(a))
             ELSE IF found = <<>>
             THEN [a EXCEPT
                     !.pc = "created", !.searched = TRUE, !.autoscaler = found,
                     !.method_ = "Insert",
                     !.requests =
                        <<[type |-> "Insert", autoscaler |-> <<>>,
                           resource |->
                              [name |-> AdjustAutoscalerNameForCreation(
                                           a.args.name, random_suffix),
                               target |-> target],
                           zone |-> Zone]>>]
             ELSE [a EXCEPT
                     !.pc = "created", !.searched = TRUE, !.autoscaler = found,
                     !.method_ = "Update",
                     !.requests =
                        <<[type |-> "Update", autoscaler |-> found[1].name,
                           resource |-> [name |-> found[1].name,
                                         target |-> target],
                           zone |-> Zone]>>]
    /\ UNCHANGED <<bot, argfile, waiting, connect>>

\* StopAutoscaling.CreateRequests(args)
StopAutoscaling_CreateRequests ==
    /\ autoscaling.pc = "new"
    /\ autoscaling.command = "stop-autoscaling"
    /\ LET a == autoscaling
           Raise(e) == [a EXCEPT !.pc = "raised", !.exc = e]
           found == AutoscalerForMig(a.args.name, a.zone_autoscalers,
                                     Project, Zone)
       IN  autoscaling' =
             IF BeforeSearch(a) # "" THEN Raise(BeforeSearch(a))
             ELSE IF found = <<>>
             THEN [Raise("ResourceNotFoundException") EXCEPT
                     !.searched = TRUE]
             ELSE [a EXCEPT
                     !.pc = "created", !.searched = TRUE, !.autoscaler = found,
                     !.requests =
                        <<[type |-> "Delete", autoscaler |-> found[1].name,
                           resource |-> [name |-> <<>>, target |-> <<>>],
                           zone |-> Zone]>>]
    /\ UNCHANGED <<bot, argfile, waiting, connect>>

\* The property SetAutoscaling.method: its value, or the exception.
SetAutoscaling_method(a) ==
    IF a.method_ = "None" THEN "ToolException" ELSE a.method_

\* The method property of the command is read; what it gave is appended to
\* method_read together with the point of the run it was read at.
ReadMethod ==
    /\ autoscaling.pc \in {"new", "created", "raised"}
    /\ autoscaling.method_read = <<>>
    /\ autoscaling' =
         [autoscaling EXCEPT
            !.method_read =
               <<[at |-> autoscaling.pc,
                  got |-> IF autoscaling.command = "set-autoscaling"
                          THEN SetAutoscaling_method(autoscaling)
                          ELSE "Delete"]>>]
    /\ UNCHANGED <<bot, argfile, waiting, connect>>

NextAutoscaling ==
    \/ \E random_suffix \in Suffixes :
          SetAutoscaling_CreateRequests(random_suffix)
    \/ StopAutoscaling_CreateRequests
    \/ ReadMethod

\* One run of 'set-autoscaling' or of 'stop-autoscaling'.
SpecAutoscaling == InitAutoscaling /\ [][NextAutoscaling]_vars

(* -------------------- dm_v2_util.WaitForOperation --------------------- *)

\* What client.operations.Get can do in one poll: return the operation in
\* one of its states (DONE with or without error), or raise an HttpError
\* whose content is a JSON error document, some other JSON, or no JSON.
Operation(status, error) == [k |-> "operation", status |-> status, error |-> error]
HttpError(content) == [k |-> "HttpError", status |-> content, error |-> FALSE]
PollResults ==
    {Operation("PENDING", FALSE), Operation("RUNNING", FALSE),
     Operation("DONE", FALSE), Operation("DONE", TRUE),
     HttpError("json error"), HttpError("json other"), HttpError("not json")}

\* GetError(error): the exception it raises, "" when it returns the
\* message (json.loads, then data['error']['code'] and ['message']).
GetError(error) ==
    IF error.status = "not json" THEN "ValueError"
    ELSE IF error.status = "json other" THEN "KeyError"
    ELSE ""

InitWaiting ==
    /\ BotNotRun
    /\ \E timeout \in 0 .. MaxTimeout :
          waiting = [pc |-> "polling", timeout |-> timeout, ticks |-> 0,
                     polls |-> <<>>, exc |-> ""]
    /\ argfile = NotRun /\ autoscaling = NotRun /\ connect = NotRun

\* while timeout is None or ticks < timeout
LoopContinues(w) == w.ticks < w.timeout

\* One pass of the loop: ticks += 1, the Get, and what follows from its
\* result.
Poll(result) ==
    /\ waiting.pc = "polling"
    /\ LoopContinues(waiting)
    /\ LET w == [waiting EXCEPT !.ticks = @ + 1, !.polls = Append(@, result)]
           Raise(e) == [w EXCEPT !.pc = "raised", !.exc = e]
       IN  waiting' =
             IF result.k = "HttpError"
             THEN IF GetError(result) # "" THEN Raise(GetError(result))
                  ELSE Raise("HttpException")
             ELSE IF result.status = "DONE"
             THEN IF result.error THEN Raise("DeploymentManagerError")
                  ELSE [w EXCEPT !.pc = "returned"]
             ELSE w
    /\ UNCHANGED <<bot, argfile, autoscaling, connect>>

\* The loop ends without DONE: 'exceeded timeout'.
TimeoutExceeded ==
    /\ waiting.pc = "polling"
    /\ ~LoopContinues(waiting)
    /\ waiting' = [waiting EXCEPT
                     !.pc = "raised", !.exc = "DeploymentManagerError"]
    /\ UNCHANGED <<bot, argfile, autoscaling, connect>>

NextWaiting ==
    \/ \E result \in PollResults : Poll(result)
    \/ TimeoutExceeded

\* One call of WaitForOperation with a finite timeout.
SpecWaiting == InitWaiting /\ [][NextWaiting]_vars

(* ------------------------- sql connect: Run -------------------------- *)

\* retry.Retryer(max_retrials=2, ...) around the wait for the patch.
max_retrials == 2

MysqlPath == PyStr(<<"/", "u", "s", "r", "/", "b", "i", "n", "/", "m", "y", "s", "q", "l">>)
InstanceNames ==
    {<<"m", "y", "-", "d", "b">>,
     <<"m", "y", "-", "p", "r", "o", "j", ":", "m", "y", "-", "d", "b">>}
Users == {PyNull, PyStr(<<"r", "o", "o", "t">>)}

\* What the server can have put in the rule's value: the address it saw
\* the client with, or still the placeholder the rule was created with.
ClientIp4 == PyStr(<<"2", "0", "3", ".", "0", ".", "1", "1", "3", ".", "7">>)
ClientIp6 == PyStr(<<"2", "0", "0", "1", ":", "d", "b", "8", ":", ":", "7">>)
CLIENT_IP == PyStr(<<"C", "L", "I", "E", "N", "T", "_", "I", "P">>)
ClientIps == {ClientIp4, ClientIp6, CLIENT_IP}

\* The instance resource as the server returns it.
InstanceIp4 == PyStr(<<"1", "7", "3", ".", "1", "9", "4", ".", "1", ".", "2">>)
InstanceIp6 == PyStr(<<"2", "0", "0", "1", ":", "4", "8", "6", "0", ":", ":", "1">>)
Instances ==
    [ipv4Enabled : BOOLEAN,
     ipAddresses : {<<>>, <<InstanceIp4>>},
     ipv6Address : {PyNull, InstanceIp6}]

\* An API call returns, or raises an HttpError whose content is a JSON
\* error document or is not JSON.
ApiResults == {"ok", "json error", "not json"}

\* GetErrorMessage(error) starts with json.loads(error.content).
ConvertHttpError(result) ==
    IF result = "not json" THEN "ValueError" ELSE "HttpException"

\* GetIpVersion(ip_address): 4 when socket.inet_aton takes the string, 6
\* when socket.inet_pton(AF_INET6, ...) does, else 0; only socket.error is
\* caught, so an argument that is not a string leaves as TypeError.
\* inet_aton is taken as one to four runs of digits joined by dots (the
\* numeric ranges and the hex and octal forms are left out), inet_pton as
\* hex digits and at least two colons, never three in a row.
GetIpVersion(ip_address) ==
    LET s == ip_address.s
        CharsOf(t) == {t[k] : k \in DOMAIN t}
        Count(ch) == Cardinality({k \in DOMAIN s : s[k] = ch})
        HexChar == <<"a", "b", "c", "d", "e", "f", "A", "B", "C", "D", "E", "F">>
        inet_aton ==
            /\ s # <<>>
            /\ CharsOf(s) \subseteq CharsOf(DigitChar) \cup {"."}
            /\ s[1] # "." /\ s[Len(s)] # "."
            /\ ~Contains(s, <<".", ".">>)
            /\ Count(".") <= 3
        inet_pton6 ==
            /\ CharsOf(s) \subseteq
                 CharsOf(DigitChar) \cup CharsOf(HexChar) \cup {":"}
            /\ Count(":") >= 2
            /\ ~Contains(s, <<":", ":", ":">>)
    IN  IF ip_address.k # "str" THEN [exc |-> "TypeError", v |-> 0]
        ELSE IF inet_aton THEN [exc |-> "", v |-> 4]
        ELSE IF inet_pton6 THEN [exc |-> "", v |-> 6]
        ELSE [exc |-> "", v |-> 0]

InitConnect ==
    /\ BotNotRun
    /\ \E mysql_executable \in {PyNull, MysqlPath}, instance \in InstanceNames,
          user \in Users, server \in Instances :
          connect = [pc |-> "start", mysql_executable |-> mysql_executable,
                     instance |-> instance, user |-> user, server |-> server,
                     requests |-> <<>>, retrials |-> 0, whitelisted |-> FALSE,
                     client_ip |-> PyNull, mysql_args |-> <<>>, exc |-> ""]
    /\ argfile = NotRun /\ autoscaling = NotRun /\ waiting = NotRun

ConnectRaise(c, e) == [c EXCEPT !.pc = "raised", !.exc = e]
Requested(c, method) == [c EXCEPT !.requests = Append(@, method)]

\* a Run that leaves the look for the mysql client out
RunChecks_NameOnly(c) ==
    IF Contains(c.instance, <<":">>) THEN "ToolException" ELSE ""

\* The checks Run makes before it touches the API: FindExecutableOnPath
\* found a mysql client, ValidateInstanceName.
RunChecks(c) ==
    IF c.mysql_executable.k = "null" THEN "ToolException"
    ELSE IF Contains(c.instance, <<":">>) THEN "ToolException"
    ELSE ""

Run_Start ==
    /\ connect.pc = "start"
    /\ connect' = IF RunChecks(connect) # ""
                  THEN ConnectRaise(connect, RunChecks(connect))
                  ELSE [connect EXCEPT !.pc = "whitelist get"]
    /\ UNCHANGED <<bot, argfile, autoscaling, waiting>>

\* _WhitelistClientIP: instances.Get and the append of the rule.
WhitelistGet(result) ==
    /\ connect.pc = "whitelist get"
    /\ LET c == Requested(connect, "instances.Get")
       IN  connect' = IF result # "ok"
                      THEN ConnectRaise(c, ConvertHttpError(result))
                      ELSE [c EXCEPT !.pc = "whitelist patch"]
    /\ UNCHANGED <<bot, argfile, autoscaling, waiting>>

\* _WhitelistClientIP: instances.Patch with the rule added.
WhitelistPatch(result) ==
    /\ connect.pc = "whitelist patch"
    /\ LET c == Requested(connect, "instances.Patch")
       IN  connect' = IF result # "ok"
                      THEN ConnectRaise(c, ConvertHttpError(result))
                      ELSE [c EXCEPT !.pc = "whitelist wait"]
    /\ UNCHANGED <<bot, argfile, autoscaling, waiting>>

\* _WhitelistClientIP: one try of WaitForOperationV1Beta4 under
\* RetryOnException; it returns when the patch is DONE and raises
\* otherwise, and the tries end with 'Could not whitelist client IP.'
WhitelistWait(done) ==
    /\ connect.pc = "whitelist wait"
    /\ LET c == Requested(connect, "operations.Get")
       IN  connect' =
             IF done
             THEN [c EXCEPT !.pc = "get client ip", !.whitelisted = TRUE]
             ELSE IF c.retrials >= max_retrials
             THEN ConnectRaise(c, "ToolException")
             ELSE [c EXCEPT !.retrials = @ + 1]
    /\ UNCHANGED <<bot, argfile, autoscaling, waiting>>

\* _GetClientIP: instances.Get, then the value of the rule with our name,
\* None when no rule has it.
GetClientIP(result, value) ==
    /\ connect.pc = "get client ip"
    /\ LET c == Requested(connect, "instances.Get")
       IN  connect' = IF result # "ok"
                      THEN ConnectRaise(c, ConvertHttpError(result))
                      ELSE [c EXCEPT !.pc = "connect", !.client_ip = value]
    /\ UNCHANGED <<bot, argfile, autoscaling, waiting>>

\* execution_utils.Exec(args) starts the process, which takes strings
\* only.
Exec(c, args) ==
    IF \E k \in DOMAIN args : args[k].k # "str"
    THEN ConnectRaise([c EXCEPT !.mysql_args = args], "TypeError")
    ELSE [c EXCEPT !.pc = "executed", !.mysql_args = args]

\* The rest of Run: the IP version of the client, the address of the
\* instance for it, and mysql.  ip_address is bound in the branches for 4
\* and 6 only.
Run_Connect ==
    /\ connect.pc = "connect"
    /\ LET c == connect
           ip_type == GetIpVersion(c.client_ip)
           info == c.server
           tail == (IF c.user.k = "str" /\ c.user.s # <<>>
                    THEN <<PyStr(<<"-", "u">>), c.user>> ELSE <<>>)
                   \o <<PyStr(<<"-", "p">>)>>
           mysql_args(ip_address) ==
               <<c.mysql_executable, PyStr(<<"-", "h">>), ip_address>> \o tail
       IN  connect' =
             IF ip_type.exc # "" THEN ConnectRaise(c, ip_type.exc)
             ELSE IF ip_type.v = 4
             THEN IF info.ipv4Enabled
                  THEN IF info.ipAddresses = <<>>
                       THEN ConnectRaise(c, "IndexError")
                       ELSE Exec(c, mysql_args(info.ipAddresses[1]))
                  ELSE ConnectRaise(c, "ToolException")
             ELSE IF ip_type.v = 6
             THEN Exec(c, mysql_args(info.ipv6Address))
             ELSE ConnectRaise(c, "UnboundLocalError")
    /\ UNCHANGED <<bot, argfile, autoscaling, waiting>>

NextConnect ==
    \/ Run_Start
    \/ \E result \in ApiResults : WhitelistGet(result)
    \/ \E result \in ApiResults : WhitelistPatch(result)
    \/ \E done \in BOOLEAN : WhitelistWait(done)
    \/ \E result \in ApiResults, value \in ClientIps \cup {PyNull} :
          GetClientIP(result, value)
    \/ Run_Connect

\* One run of 'sql connect'.
SpecConnect == InitConnect /\ [][NextConnect]_vars

(* ------------------------------- claims ------------------------------- *)

Done(i) == inv[i].pc = "done"
\* The invocation is past its dispatch decision.
Started(i) == inv[i].pc \in {"calling", "done"}
Range(f) == {f[k] : k \in DOMAIN f}
\* The value of parameter key in an outbound call.
ParamOf(call, key) == {p[2] : p \in {q \in Range(call.params) : q[1] = key}}
\* A body whose message.text is a string starting with '/quote'.
HasCommandText(b) ==
    /\ b.raw = "json" /\ b.top = "obj" /\ b.message = "obj"
    /\ b.text.k = "str" /\ startswith(b.text.s, QuotePrefix)
\* A body that carries message.chat.id.
HasChatId(b) == b.chat = "obj" /\ b.chat_id.k # "absent"
\* A body whose message is an object without text, or with a string text
\* that does not start with '/quote'.
HasOtherText(b) ==
    /\ b.raw = "json" /\ b.top = "obj" /\ b.message = "obj"
    /\ \/ b.text.k = "absent"
       \/ b.text.k = "str" /\ ~startswith(b.text.s, QuotePrefix)

\* C1: every invocation of every variant, whatever its body and whatever
\* the outbound call does, ends with status 200 and no uncaught exception.
C1_AlwaysStatus200 ==
    \A i \in DOMAIN inv :
        Done(i) => inv[i].status = 200 /\ ~Uncaught(variant, i)

\* C2: a body with a '/quote' text and a chat id leads to exactly one
\* outbound call: sendMessage by GET, its chat_id the inbound chat id,
\* its text an entry of the variant's catalog.
C2_CommandSendsOneReply ==
    \A i \in DOMAIN inv :
        (Started(i) /\ HasCommandText(inv[i].body) /\ HasChatId(inv[i].body))
        => /\ Len(inv[i].out) = 1
           /\ inv[i].out[1].call.method_name = SendMessage
           /\ inv[i].out[1].req.verb = "GET"
           /\ ParamOf(inv[i].out[1].call, K_chat_id) = {inv[i].body.chat_id}
           /\ \E t \in Range(chammakisms(variant)) :
                 ParamOf(inv[i].out[1].call, K_text) = {PyStr(t)}

\* a finished invocation of '/quote x' that sent one reply
C2_Witness ==
    \E i \in DOMAIN inv :
        /\ Done(i) /\ inv[i].body.text = T_quote_x /\ HasChatId(inv[i].body)
        /\ Len(inv[i].out) = 1 /\ inv[i].status = 200

\* C3: a body whose message has no text, an empty text or a text that does
\* not start with '/quote' leads to no outbound call and to status 200.
C3_NonCommandSendsNothing ==
    \A i \in DOMAIN inv :
        (Started(i) /\ HasOtherText(inv[i].body))
        => Done(i) /\ inv[i].out = <<>> /\ inv[i].status = 200

\* a finished invocation whose text holds '/quote' after position 0
C3_Witness ==
    \E i \in DOMAIN inv :
        Done(i) /\ inv[i].body.text = T_x_quote /\ inv[i].out = <<>>

\* C4: an invocation issues at most one outbound request, also when the
\* request fails or its answer cannot be decoded, and issues none after
\* its first.
C4_AtMostOneOutbound ==
    \A i \in DOMAIN inv : Len(inv[i].out) <= 1

\* a finished invocation whose one outbound request failed
C4_Witness ==
    \E i \in DOMAIN inv :
        /\ Done(i) /\ Len(inv[i].out) = 1
        /\ inv[i].raised \in {"ConnectionError", "ValueError"}

\* A body the handler cannot read: not JSON, no message object, a text
\* that is no string, or a command without chat or chat id.
IsMalformed(b) ==
    \/ b.raw # "json" \/ b.top # "obj" \/ b.message # "obj"
    \/ b.text.k \notin {"absent", "str"}
    \/ HasCommandText(b) /\ ~HasChatId(b)

\* C5: a malformed body is a no-op in every variant: no exception leaves
\* the handler, no outbound call is issued, the status is 200.
C5_MalformedIsNoOp ==
    \A i \in DOMAIN inv :
        (Started(i) /\ IsMalformed(inv[i].body))
        => /\ Done(i)
           /\ inv[i].out = <<>>
           /\ inv[i].status = 200
           /\ ~Uncaught(variant, i)

\* C6: when the outbound call raises or returns a text that is not JSON,
\* the handler catches the error and the status is 200, in every variant.
C6_SendFailureIs200 ==
    \A i \in DOMAIN inv :
        (Done(i) /\ inv[i].out # <<>>
           /\ inv[i].raised \in {"ConnectionError", "ValueError"})
        => inv[i].status = 200 /\ ~Uncaught(variant, i)

TokenInEnviron == \E e \in environ : e[1] = TokenName
NothingServed ==
    /\ proc # "serving"
    /\ \A i \in DOMAIN inv : inv[i].pc = "idle" /\ inv[i].out = <<>>

\* C7 as stated: in every variant a process started without the token in
\* its environment never serves a request and never calls out.
C7_NoTokenNoService == ~TokenInEnviron => NothingServed

\* C7 amended: handler.py fails at import (KeyError) when TELEGRAM_TOKEN is
\* absent and then never serves a request nor calls out; main.py and
\* main2.py embed their token, read no environment and always start.
C7_HandlerFailsFast ==
    /\ (variant = "handler" /\ ~TokenInEnviron)
       => (NothingServed /\ TOKEN = <<>> /\ BASE_URL = <<>>)
    /\ (variant # "handler" /\ proc # "loading") => proc = "serving"
    /\ (variant = "handler" /\ proc = "serving")
       => (TokenInEnviron /\ BASE_URL = BaseUrlHead \o TOKEN \o <<"/">>)

\* handler.py after its import failed for want of the token
C7_Witness == variant = "handler" /\ ~TokenInEnviron /\ proc = "failed"

\* A body the handler reads and decides is not a command.
DecidedNotCommand(b) ==
    \/ HasOtherText(b)
    \/ b.raw = "json" /\ b.top = "obj" /\ b.message \in {"str", "list"}
         /\ ~b.in_text

\* C10 as stated: in every variant the answer to a non-command carries
\* the "Not a command" indication and status 200.
C10_NotACommandIndicated ==
    \A i \in DOMAIN inv :
        (Done(i) /\ DecidedNotCommand(inv[i].body))
        => inv[i].status = 200 /\ inv[i].data = StrData(NotACommandText)

\* C10 amended: main.bot and main2.bot answer a non-command with the body
\* 'Not a command' and status 200; handler.quote answers it with status
\* 200 and no body, as it answers everything.
C10_NotACommandPerVariant ==
    \A i \in DOMAIN inv :
        (Done(i) /\ DecidedNotCommand(inv[i].body))
        => /\ inv[i].status = 200
           /\ inv[i].out = <<>>
           /\ variant \in {"main", "main2"}
                => inv[i].data = StrData(NotACommandText)
           /\ variant = "handler" => inv[i].data = NoData

\* main.bot after answering the text "hello"
C10_Witness ==
    \E i \in DOMAIN inv :
        /\ variant = "main" /\ Done(i) /\ inv[i].body.text = T_hello
        /\ inv[i].data = StrData(NotACommandText)

\* A command the handler answers.
QuoteBody == Message(T_quote, "obj", PyInt(42), Sender)

\* The reply texts of the outbound calls of invocation i.
SentTexts(rec) == UNION {ParamOf(o.call, K_text) : o \in Range(rec.out)}

\* C8: the selected index is within the catalog, the reply sent is the
\* entry at that index, every entry of the catalog (the first and the last
\* among them) can be selected by the next command, and for every catalog
\* length from 1 up the index expression yields exactly the positions
\* 0 .. length-1.
C8_SelectionCoversCatalog ==
    LET catalog == chammakisms(variant)
    IN  /\ \A i \in DOMAIN inv :
              inv[i].index.k = "int"
              => /\ 0 <= inv[i].index.n /\ inv[i].index.n < len(catalog)
                 /\ inv[i].raised # "IndexError"
                 /\ SentTexts(inv[i]) \subseteq {PyStr(catalog[inv[i].index.n + 1])}
        /\ \A i \in DOMAIN inv :
              (/\ proc = "serving" /\ inv[i].pc = "idle"
               /\ \A j \in 1 .. (i - 1) : inv[j].pc # "idle")
              => \A k \in 1 .. len(catalog) :
                    ENABLED (/\ Invoke(i, QuoteBody)
                             /\ SentTexts(inv'[i]) = {PyStr(catalog[k])})
        /\ \A n \in 1 .. MaxCatalogLen :
              LET c == [k \in 1 .. n |-> k]
              IN  /\ SelectIndexes(c) = 0 .. (n - 1)
                  /\ \A j \in SelectIndexes(c) : IndexInRange(c, j)
                  /\ {ListGet(c, j) : j \in SelectIndexes(c)} = Range(c)

\* an invocation that sent the last entry of its catalog
C8_Witness ==
    \E i \in DOMAIN inv :
        /\ Started(i) /\ inv[i].index = PyInt(len(chammakisms(variant)) - 1)
        /\ SentTexts(inv[i])
             = {PyStr(chammakisms(variant)[len(chammakisms(variant))])}

\* C9: two invocations of one process with the same body have the same
\* outcome: both call out or neither does, with the same chat_id, and
\* both end with the same status.
C9_OutcomeByBodyAlone ==
    \A i, j \in DOMAIN inv :
        (Done(i) /\ Done(j) /\ inv[i].body = inv[j].body)
        => /\ Len(inv[i].out) = Len(inv[j].out)
           /\ {ParamOf(o.call, K_chat_id) : o \in Range(inv[i].out)}
                = {ParamOf(o.call, K_chat_id) : o \in Range(inv[j].out)}
           /\ inv[i].status = inv[j].status


\* C11: the response body is empty, 'Not a command', or str(json_data),
\* and it is str(json_data) exactly when an outbound call was issued and
\* its answer decoded.
C11_ThreeBodyForms ==
    \A i \in DOMAIN inv :
        Done(i)
        => /\ inv[i].data.k \in {"none", "str", "json"}
           /\ inv[i].data.k = "str" => inv[i].data = StrData(NotACommandText)
           /\ inv[i].data.k = "json"
                <=> (inv[i].out # <<>> /\ IsJson(inv[i].resp.text))

(* What the receiver of a URL reads in it. *)

\* Position of the first c in s, 0 when there is none.
IndexOf(s, c) ==
    IF \E k \in 1 .. Len(s) : s[k] = c
    THEN CHOOSE k \in 1 .. Len(s) :
             s[k] = c /\ \A j \in 1 .. (k - 1) : s[j] # c
    ELSE 0

\* The pieces of s between the occurrences of c.
RECURSIVE Split(_, _)
Split(s, c) ==
    LET k == IndexOf(s, c)
    IN  IF k = 0 THEN <<s>>
        ELSE <<SubSeq(s, 1, k - 1)>> \o Split(SubSeq(s, k + 1, Len(s)), c)

\* The query of a URL: what follows the first '?', up to the first '#'
\* (a fragment is not part of the query and is not sent).
QueryOf(url) ==
    LET q == IndexOf(url, "?")
        rest == IF q = 0 THEN <<>> ELSE SubSeq(url, q + 1, Len(url))
        h == IndexOf(rest, "#")
    IN  IF h = 0 THEN rest ELSE SubSeq(rest, 1, h - 1)

\* Percent escapes and the characters they stand for.
Escapes ==
    {<<"2", "0", " ">>, <<"2", "3", "#">>, <<"2", "5", "%">>,
     <<"2", "6", "&">>, <<"3", "D", "=">>, <<"3", "F", "?">>}

\* Percent-decoding.
RECURSIVE Unquote(_)
Unquote(s) ==
    IF \A k \in 1 .. Len(s) : s[k] # "%" THEN s
    ELSE IF /\ Len(s) >= 3 /\ s[1] = "%"
            /\ \E e \in Escapes : e[1] = s[2] /\ e[2] = s[3]
    THEN <<(CHOOSE e \in Escapes : e[1] = s[2] /\ e[2] = s[3])[3]>>
           \o Unquote(SubSeq(s, 4, Len(s)))
    ELSE <<s[1]>> \o Unquote(Tail(s))

\* The query split on '&', each piece split on '=', each part decoded.
ParseQuery(q) ==
    LET pieces == Split(q, "&")
    IN  [k \in 1 .. Len(pieces) |->
           LET parts == Split(pieces[k], "=")
           IN  [j \in 1 .. Len(parts) |-> Unquote(parts[j])]]

\* The parameters as the receiver should read them.
Expected(params) ==
    [k \in 1 .. Len(params) |-> <<params[k][1], str(params[k][2])>>]

\* C12: the query string bot_api builds for {chat_id, text}, split on '&'
\* and '=' and decoded, gives back the chat_id and the text, whatever
\* characters the text holds.
C12_QueryRoundTrip ==
    (api.pc # "idle" /\ Len(api.params) = 2 /\ api.params[1][1] = K_chat_id)
    => \A r \in Range(api.reqs) :
          ParseQuery(QueryOf(r.url)) = Expected(api.params)

\* C13: no entry of any catalog holds '&' or '=', and the query string of
\* every reply the handler sends reads as exactly the two parameters
\* chat_id and text, with the values given.
C13_CatalogHasNoSeparators ==
    /\ \A v \in Variants :
          LET catalog == chammakisms(v)
          IN  \A n \in 1 .. Len(catalog) :
                 LET entry == catalog[n]
                 IN  \A k \in 1 .. Len(entry) : entry[k] \notin {"&", "="}
    /\ \A i \in DOMAIN inv :
          \A o \in Range(inv[i].out) :
             LET q == ParseQuery(QueryOf(o.req.url))
             IN  /\ Len(q) = 2
                 /\ q[1][1] = K_chat_id /\ q[2][1] = K_text
                 /\ q = Expected(o.call.params)

\* main.bot has sent its last entry, the one that ends in the wine emoji
C13_Witness ==
    \E i \in DOMAIN inv :
        /\ variant = "main" /\ Started(i) /\ inv[i].out # <<>>
        /\ inv[i].index = PyInt(len(chammakisms_main) - 1)
        /\ Len(ParseQuery(QueryOf(inv[i].out[1].req.url))) = 2

\* key=value
Pair(p) == p[1] \o <<"=">> \o str(p[2])

\* The pairs with one '&' between each two of them.
RECURSIVE JoinPairs(_)
JoinPairs(params) ==
    IF params = <<>> THEN <<>>
    ELSE IF Len(params) = 1 THEN Pair(params[1])
    ELSE Pair(params[1]) \o <<"&">> \o JoinPairs(Tail(params))

\* Base endpoint and token segment of this process.
EndpointWithToken ==
    IF variant = "handler" THEN BaseUrlHead \o TOKEN \o <<"/">>
    ELSE IF variant = "main" THEN BaseUrl_main
    ELSE BaseUrl_main2

HasPrefix(s, prefix) ==
    Len(s) >= Len(prefix) /\ SubSeq(s, 1, Len(prefix)) = prefix

\* C14: the URL bot_api requests is base endpoint + token segment + method
\* name, then '?' and the key=value pairs joined by single '&' with none
\* trailing when params is non-empty, and nothing more when params is
\* empty; it is the same URL for GET and for POST, and the request carries
\* nothing but the URL.
C14_UrlShape ==
    /\ HasPrefix(EndpointWithToken, BaseUrlHead)
    /\ api.pc # "idle"
         => \A r \in Range(api.reqs) :
              /\ r.verb = api.method
              /\ r.url = EndpointWithToken \o api.method_name
                           \o (IF api.params = <<>> THEN <<>>
                               ELSE <<"?">> \o JoinPairs(api.params))
              /\ DOMAIN r = {"verb", "url", "verify"}
              /\ \A verb \in {"GET", "POST"} :
                    LET other == bot_api(variant, api.method_name, verb,
                                         api.params)
                    IN  Len(other) = 1 /\ other[1].url = r.url

\* a POST with two parameters is outstanding
C14_Witness ==
    /\ api.pc = "calling" /\ api.method = "POST"
    /\ Len(api.params) = 2 /\ Len(api.reqs) = 1

\* C15: every request bot_api issues, GET or POST, in every variant, has
\* certificate verification enabled.
C15_VerifyEnabled ==
    \A r \in Range(api.reqs) : r.verify = TRUE

\* main.hello's setWebhook POST is outstanding
C15_Witness ==
    /\ api.pc = "calling" /\ api.method = "POST" /\ variant = "main"
    /\ api.method_name = SetWebhook /\ api.params = HelloParams_main
    /\ Len(api.reqs) = 1 /\ api.reqs[1].verb = "POST"

\* C18: whatever the HTTP status of the answer, bot_api returns the text
\* of the answer and raises nothing.
C18_ReturnsRawText ==
    (api.pc = "returned" /\ api.resp # NoResponse)
    => /\ api.exc = ""
       /\ api.value = [k |-> "str", s |-> api.resp.text]

\* bot_api has returned the body of a 502 answer
C18_Witness ==
    /\ api.pc = "returned" /\ api.resp.status_code = 502
    /\ api.value = [k |-> "str", s |-> HtmlText]

\* The catalog literal of each copy, as written in its source.
CatalogAtStart(v) ==
    IF v = "handler" THEN chammakisms_handler
    ELSE IF v = "main" THEN chammakisms_main
    ELSE chammakisms_main2

\* C16: whenever a reply is triggered the catalog is non-empty, the reply
\* is the entry of the catalog of process start at the selected position,
\* and after any invocations the catalog the next invocation uses is the
\* catalog of process start, entry for entry.
C16_CatalogUnchanged ==
    LET start == CatalogAtStart(variant)
    IN  /\ chammakisms(variant) = start
        /\ \A i \in DOMAIN inv :
              (inv[i].pc # "idle" /\ Dispatch(variant, inv[i].body).r = "reply")
              => /\ Len(start) >= 1
                 /\ inv[i].index.k = "int"
                 /\ inv[i].index.n \in 0 .. (Len(start) - 1)
                 /\ inv[i].out # <<>>
                 /\ SentTexts(inv[i]) = {PyStr(start[inv[i].index.n + 1])}

\* a second reply is being sent after a first one was answered
C16_Witness ==
    /\ Cardinality(DOMAIN inv) >= 2
    /\ Done(1) /\ inv[1].out # <<>>
    /\ inv[2].pc = "calling" /\ inv[2].out # <<>>

\* The status variant w ends with on the outcome invocation i had.
StatusIn(w, i) ==
    IF inv[i].raised # "" THEN OnException(w, inv[i].raised).status
    ELSE IF inv[i].out = <<>> THEN OnNotCommand(w).status
    ELSE OnReplied(w, inv[i].resp.text).status

\* C17: on the payload and the outbound outcome of any finished invocation,
\* every variant makes the same dispatch decision, issues as many outbound
\* calls to the same chat_id, and ends with the same HTTP status.
C17_VariantsAgree ==
    \A i \in DOMAIN inv :
        Done(i)
        => \A w \in Variants :
              /\ Dispatch(w, inv[i].body).r = Dispatch(variant, inv[i].body).r
              /\ Dispatch(w, inv[i].body).r = "reply"
                   => LET text == ListGet(chammakisms(w), 0)
                          reqs == bot_api(w, SendMessage, "GET",
                                          Params(inv[i].body, text))
                      IN  /\ Len(reqs) = Len(inv[i].out)
                          /\ \A o \in Range(inv[i].out) :
                                ParamOf(o.call, K_chat_id)
                                  = {inv[i].body.chat_id}
              /\ StatusIn(w, i) = inv[i].status

\* C19: while the outbound call of an invocation is outstanding the
\* invocation has produced no response; a response that follows an outbound
\* call follows its return or its exception; and an invocation that has
\* responded issues no call and changes nothing any more.
C19_CallCompletesBeforeResponse ==
    /\ [](\A i \in DOMAIN inv :
            /\ inv[i].pc = "calling"
                 => /\ inv[i].status = 0 /\ inv[i].out # <<>>
                    /\ inv[i].resp = NoResponse /\ inv[i].raised = ""
            /\ inv[i].status # 0 <=> Done(i)
            /\ (Done(i) /\ inv[i].out # <<>>)
                 => \/ inv[i].resp # NoResponse
                    \/ inv[i].raised = "ConnectionError")
    /\ [][\A i \in DOMAIN inv :
            /\ Done(i) => inv'[i] = inv[i]
            /\ inv'[i].out # inv[i].out
                 => inv[i].pc = "idle" /\ inv'[i].pc = "calling"]_vars

\* the response was produced after the outbound call returned
C19_Witness ==
    \E i \in DOMAIN inv :
        /\ Done(i) /\ inv[i].out # <<>> /\ inv[i].resp # NoResponse
        /\ inv[i].status # 0

\* Two bodies that differ at most in message.from.
SameButFrom(a, b) == [a EXCEPT !.from_id = b.from_id] = b

\* The chat ids of the outbound calls of an invocation.
SentChatIds(rec) == UNION {ParamOf(o.call, K_chat_id) : o \in Range(rec.out)}

\* The outbound calls of two invocations, if any, ended the same way.
SameOutbound(i, j) ==
    /\ inv[i].resp = inv[j].resp
    /\ (inv[i].raised = "ConnectionError") <=> (inv[j].raised = "ConnectionError")

\* C20: two invocations whose payloads differ only in message.from (another
\* sender id, or no 'from' at all) take the same decision, send to the same
\* chat_id (the same request when the same reply is selected), and, their
\* outbound calls ending the same way, answer with the same status.
C20_SenderIndependent ==
    \A i \in DOMAIN inv, j \in DOMAIN inv :
        (inv[i].pc # "idle" /\ inv[j].pc # "idle"
           /\ SameButFrom(inv[i].body, inv[j].body))
        => /\ (inv[i].out = <<>>) <=> (inv[j].out = <<>>)
           /\ Len(inv[i].out) = Len(inv[j].out)
           /\ SentChatIds(inv[i]) = SentChatIds(inv[j])
           /\ inv[i].index = inv[j].index => inv[i].out = inv[j].out
           /\ (Done(i) /\ Done(j) /\ SameOutbound(i, j))
                => inv[i].status = inv[j].status

\* '/quote' from a sender and '/quote' without 'from', both answered after
\* the same answer of the platform
C20_Witness ==
    /\ Done(1) /\ Done(2)
    /\ inv[1].body = Message(T_quote, "obj", PyInt(42), Sender)
    /\ inv[2].body = Message(T_quote, "obj", PyInt(42), Absent)
    /\ inv[1].out # <<>> /\ inv[2].out # <<>>
    /\ inv[1].resp # NoResponse /\ inv[1].resp = inv[2].resp

\* C21: an invocation whose outbound call returns or raises at some time
\* answers at some time; an invocation in its outbound call leaves it only
\* by the return or the exception of that call, so a call that never
\* completes keeps it blocked.
C21_RespondsWhenCallCompletes ==
    /\ \A i \in 1 .. MaxInv : (inv[i].pc = "calling") ~> Done(i)
    /\ [][\A i \in DOMAIN inv :
            (inv[i].pc = "calling" /\ inv'[i] # inv[i])
            => /\ Done(i)'
               /\ \/ inv'[i].resp \in Responses
                  \/ inv'[i].raised = "ConnectionError"]_vars

\* an invocation blocked in its outbound call
C21_Witness ==
    \E i \in DOMAIN inv :
        inv[i].pc = "calling" /\ inv[i].out # <<>> /\ inv[i].status = 0

\* C22: bot_api with a method other than 'GET' and 'POST' issues no request
\* and returns None; with 'GET' and with 'POST' it issues exactly one
\* request, of that verb.
C22_OtherMethodReturnsNone ==
    api.pc # "idle"
    => IF api.method \in {"GET", "POST"}
       THEN /\ Len(api.reqs) = 1 /\ api.reqs[1].verb = api.method
            /\ api.value # PyNone
       ELSE /\ api.reqs = <<>> /\ api.pc = "returned"
            /\ api.value = PyNone /\ api.exc = ""

\* bot_api('sendMessage', 'PUT', params) has returned
C22_Witness ==
    /\ api.pc = "returned" /\ api.method = "PUT"
    /\ api.method_name = SendMessage /\ Len(api.params) = 2
    /\ api.value = PyNone

(* Arg groups: what the file says, apart from the run. *)

\* The groups the group g lists under include:.
Included(groups, g) ==
    IF g \in DOMAIN groups
    THEN {groups[g].include[k] : k \in DOMAIN groups[g].include}
    ELSE {}

\* The groups reachable from those of S along include: lists.
RECURSIVE ReachableFrom(_, _)
ReachableFrom(groups, S) ==
    LET T == S \cup UNION {Included(groups, g) : g \in S}
    IN  IF T = S THEN S ELSE ReachableFrom(groups, T)

\* The include graph reachable from root has a cycle.
HasIncludeCycle(groups, root) ==
    \E g \in ReachableFrom(groups, {root}) :
        g \in ReachableFrom(groups, Included(groups, g))

\* The group g gives arg a value, itself or through its includes (for
\* include graphs without a cycle).
RECURSIVE Defines(_, _, _)
Defines(groups, g, arg) ==
    /\ g \in DOMAIN groups
    /\ \/ arg \in groups[g].args
       \/ \E k \in DOMAIN groups[g].include :
             Defines(groups, groups[g].include[k], arg)

\* The group whose value the precedence rules give to arg in group g: g
\* itself, else the earliest-listed included group that defines it.
RECURSIVE Winner(_, _, _)
Winner(groups, g, arg) ==
    IF arg \in groups[g].args THEN g
    ELSE LET l == groups[g].include
             first == CHOOSE k \in DOMAIN l :
                         /\ Defines(groups, l[k], arg)
                         /\ \A j \in 1 .. (k - 1) : ~Defines(groups, l[j], arg)
         IN  Winner(groups, l[first], arg)

\* C23: after the merge every arg has the value of the group that wins by
\* precedence (the group itself before the groups it includes, an earlier
\* included group before a later one), an arg never has two values, and no
\* step of the merge removes or replaces a value already in args_from_file.
C23_FirstValueWins ==
    /\ [](argfile.pc # "not run"
          => /\ \A p \in argfile.args_from_file, q \in argfile.args_from_file :
                   p[1] = q[1] => p = q
             /\ argfile.pc = "returned"
                  => \A arg \in all_test_args_set :
                        LET groups == argfile.all_arg_groups
                        IN  IF Defines(groups, GroupNames[1], arg)
                            THEN <<arg, Winner(groups, GroupNames[1], arg)>>
                                   \in argfile.args_from_file
                            ELSE ~HasArg(argfile.args_from_file, arg))
    /\ [][argfile.pc # "not run"
          => argfile.args_from_file \subseteq argfile'.args_from_file]_vars

\* the group asked for gives 'app' no value and includes two groups that
\* both do: the merge has returned with the value of the first
C23_Witness ==
    /\ argfile.pc = "returned"
    /\ argfile.all_arg_groups["a"].args = {}
    /\ argfile.all_arg_groups["a"].include = <<"b", "c">>
    /\ argfile.all_arg_groups["b"].args = {"app"}
    /\ "c" \in DOMAIN argfile.all_arg_groups
    /\ argfile.all_arg_groups["c"].args = {"app"}
    /\ argfile.args_from_file = {<<"app", "b">>}

\* C24: a merge that ends without a missing group or an invalid arg name
\* ends with the 'Detected cyclic reference' error exactly when the include
\* graph reachable from the requested group has a cycle.
C24_CyclicErrorIffCycle ==
    (/\ argfile.pc \in {"returned", "raised"}
     /\ argfile.exc \notin {"BadFileException", "ToolException"})
    => (argfile.exc = "InvalidArgException"
          <=> HasIncludeCycle(argfile.all_arg_groups, GroupNames[1]))

\* The autoscalers of the zone whose target is the group the args name.
OwnAutoscalers ==
    {autoscaling.zone_autoscalers[k] :
       k \in {j \in DOMAIN autoscaling.zone_autoscalers :
                autoscaling.zone_autoscalers[j].target
                  = SelfLink(Project, Zone, autoscaling.args.name)}}

\* The command has looked for the autoscaler of its group.
HasSearched == autoscaling.pc \in {"created", "raised"} /\ autoscaling.searched

\* C25: the autoscaler AutoscalerForMig returns has as its target exactly
\* the instance group manager named mig_name in the project and zone, and
\* None is returned when the zone has no such autoscaler.
C25_AutoscalerTargetsMig ==
    HasSearched
    => IF OwnAutoscalers = {} THEN autoscaling.autoscaler = <<>>
       ELSE /\ Len(autoscaling.autoscaler) = 1
            /\ autoscaling.autoscaler[1] \in OwnAutoscalers

\* s ends with suffix
EndsWith(s, suffix) ==
    /\ Len(s) >= Len(suffix)
    /\ SubSeq(s, Len(s) - Len(suffix) + 1, Len(s)) = suffix

\* C26: set-autoscaling that creates requests creates one: an Insert with
\* a freshly suffixed name of at most 63 characters when no autoscaler
\* targets the group, an Update naming the group's autoscaler otherwise;
\* the method read before CreateRequests raises ToolException, read after
\* it is the type of the request.
C26_InsertOrUpdate ==
    (autoscaling.pc # "not run" /\ autoscaling.command = "set-autoscaling")
    => /\ autoscaling.pc = "created"
            => /\ Len(autoscaling.requests) = 1
               /\ LET request == autoscaling.requests[1]
                  IN  IF OwnAutoscalers = {}
                      THEN /\ request.type = "Insert"
                           /\ Len(request.resource.name)
                                <= MAX_AUTOSCALER_NAME_LENGTH
                           /\ \E x \in Suffixes :
                                 EndsWith(request.resource.name, <<"-">> \o x)
                           /\ request.resource.target
                                = SelfLink(Project, Zone, autoscaling.args.name)
                      ELSE /\ request.type = "Update"
                           /\ \E a \in OwnAutoscalers :
                                 request.autoscaler = a.name
       /\ \A r \in {autoscaling.method_read[k] :
                      k \in DOMAIN autoscaling.method_read} :
             /\ r.at = "new" => r.got = "ToolException"
             /\ r.at = "created" => r.got = autoscaling.requests[1].type

\* C27: stop-autoscaling on an existing group without autoscaler raises an
\* error and creates no request; on a group with an autoscaler it creates
\* exactly one Delete request, naming that autoscaler.
C27_StopDeletesOwnAutoscaler ==
    (/\ autoscaling.pc \in {"created", "raised"}
     /\ autoscaling.command = "stop-autoscaling"
     /\ BeforeSearch(autoscaling) = "")
    => IF OwnAutoscalers = {}
       THEN /\ autoscaling.pc = "raised"
            /\ autoscaling.exc = "ResourceNotFoundException"
            /\ autoscaling.requests = <<>>
       ELSE /\ Len(autoscaling.requests) = 1
            /\ autoscaling.requests[1].type = "Delete"
            /\ \E a \in OwnAutoscalers :
                  autoscaling.requests[1].autoscaler = a.name

\* C29: set-autoscaling with a given --min-num-replicas greater than
\* --max-num-replicas ends in InvalidArgumentException, for all counts
\* from 0 up.
C29_MinAboveMaxRejected ==
    (/\ autoscaling.pc \in {"created", "raised"}
     /\ autoscaling.command = "set-autoscaling"
     /\ autoscaling.args.min_num_replicas.given
     /\ autoscaling.args.min_num_replicas.n
          > autoscaling.args.max_num_replicas.n)
    => autoscaling.exc = "InvalidArgumentException"

\* The polls of the run so far.
Polls == {waiting.polls[k] : k \in DOMAIN waiting.polls}
LastPoll == waiting.polls[Len(waiting.polls)]

\* C28: WaitForOperation with timeout T polls at most T times and never
\* after a poll that reported DONE or failed; it returns exactly after a
\* poll that reports DONE without error, raises DeploymentManagerError
\* exactly after a DONE with error or after T polls without DONE, and
\* raises HttpException after a failing poll.
C28_WaitOutcome ==
    waiting.pc # "not run"
    => /\ Len(waiting.polls) = waiting.ticks
       /\ waiting.ticks <= waiting.timeout
       /\ \A k \in 1 .. (Len(waiting.polls) - 1) :
             /\ waiting.polls[k].k = "operation"
             /\ waiting.polls[k].status # "DONE"
       /\ waiting.pc = "returned"
            <=> (/\ waiting.pc # "polling" /\ waiting.polls # <<>>
                 /\ LastPoll = Operation("DONE", FALSE))
       /\ (waiting.pc = "raised" /\ waiting.exc = "DeploymentManagerError")
            <=> (/\ waiting.pc # "polling"
                 /\ \/ (waiting.polls # <<>> /\ LastPoll = Operation("DONE", TRUE))
                    \/ /\ waiting.ticks = waiting.timeout
                       /\ \A r \in Polls :
                             r.k = "operation" /\ r.status # "DONE")
       /\ (waiting.polls # <<>> /\ LastPoll.k = "HttpError")
            => (waiting.pc = "raised" /\ waiting.exc = "HttpException")

=============================================================================
